---- MODULE Spec2Model ----
(***************************************************************************)
(* A model of roogle's search engine: the structural comparator            *)
(* (roogle-engine/src/compare.rs), the query types and parser              *)
(* (roogle-engine/src/types.rs, parse.rs) and the search driver            *)
(* (roogle-engine/src/search.rs).                                          *)
(*                                                                         *)
(* Conventions.  Every value is a record, so that values of different      *)
(* shapes can be compared.  Strings of the program (names, query text) are *)
(* sequences of one-character strings.  f32 costs are exact rationals      *)
(* [n, d] in lowest terms; NaN is [n |-> 0, d |-> 0].                      *)
(***************************************************************************)
EXTENDS Integers, Sequences, FiniteSets, TLC

(***************************************************************************)
(* Option<T>                                                               *)
(***************************************************************************)
None == [some |-> FALSE]

Some(x) == [some |-> TRUE, val |-> x]

IsSome(o) == o.some

(***************************************************************************)
(* Small arithmetic helpers                                                *)
(***************************************************************************)
Min2(a, b) == IF a <= b THEN a ELSE b

Max2(a, b) == IF a >= b THEN a ELSE b

RECURSIVE Gcd(_, _)
Gcd(a, b) == IF b = 0 THEN a ELSE Gcd(b, a % b)

\* f32 values that the comparator produces, as exact rationals.
NaN == [n |-> 0, d |-> 0]

IsNaN(x) == x.d = 0

Rat(n, d) ==
    IF d = 0 THEN NaN
    ELSE LET g == Gcd(n, d) IN
         IF g = 0 THEN [n |-> 0, d |-> 1] ELSE [n |-> n \div g, d |-> d \div g]

RatAdd(x, y) == IF IsNaN(x) \/ IsNaN(y) THEN NaN ELSE Rat(x.n * y.d + y.n * x.d, x.d * y.d)

\* x / k for a length k (k = 0 gives 0.0 / 0.0 = NaN, x / 0 = +inf never arises
\* with x > 0 because a sum over an empty vector is 0).
RatDivInt(x, k) == IF IsNaN(x) \/ k = 0 THEN NaN ELSE Rat(x.n, x.d * k)

\* IEEE comparison: every comparison with NaN is false.
RatLt(x, y) == ~IsNaN(x) /\ ~IsNaN(y) /\ x.n * y.d < y.n * x.d

RatLe(x, y) == ~IsNaN(x) /\ ~IsNaN(y) /\ x.n * y.d <= y.n * x.d

(***************************************************************************)
(* levenshtein::levenshtein (the edit distance of two strings), computed   *)
(* row by row.                                                             *)
(***************************************************************************)
RECURSIVE LevRow(_, _, _, _)
LevRow(prev, ca, b, acc) ==
    IF Len(acc) = Len(b) + 1 THEN acc
    ELSE LET j == Len(acc)
             sub == prev[j] + (IF ca = b[j] THEN 0 ELSE 1)
             v == Min2(Min2(prev[j + 1] + 1, acc[j] + 1), sub)
         IN LevRow(prev, ca, b, Append(acc, v))

RECURSIVE LevRows(_, _, _, _)
LevRows(a, b, i, prev) ==
    IF i > Len(a) THEN prev[Len(b) + 1]
    ELSE LevRows(a, b, i + 1, LevRow(prev, a[i], b, <<prev[1] + 1>>))

levenshtein(a, b) == LevRows(a, b, 1, [j \in 1..(Len(b) + 1) |-> j - 1])

(***************************************************************************)
(* compare.rs: Similarity, DiscreteSimilarity, Similarities                *)
(***************************************************************************)
Equivalent == [kind |-> "Discrete", d |-> "Equivalent"]

Subequal == [kind |-> "Discrete", d |-> "Subequal"]

Different == [kind |-> "Discrete", d |-> "Different"]

Continuous(num, den) == [kind |-> "Continuous", x |-> Rat(num, den)]

\* Similarity::score with Subequal for free: a variant that
\* C15_ScoreIsMeanWithinUnitInterval tells apart from the code.
Similarity_score_free_subequal(sim) ==
    IF sim.kind = "Continuous" THEN sim.x
    ELSE IF sim.d = "Different" THEN Rat(1, 1)
    ELSE Rat(0, 1)

\* Similarity::score
Similarity_score(sim) ==
    IF sim.kind = "Continuous" THEN sim.x
    ELSE IF sim.d = "Equivalent" THEN Rat(0, 1)
    ELSE IF sim.d = "Subequal" THEN Rat(1, 4)
    ELSE Rat(1, 1)

\* sims.iter().map(Similarity::score).sum()
RECURSIVE SumScores(_)
SumScores(sims) ==
    IF sims = <<>> THEN Rat(0, 1)
    ELSE RatAdd(Similarity_score(Head(sims)), SumScores(Tail(sims)))

\* Similarities::score with 0 for the empty vector: a mutant that
\* C5_EmptyVectorNeverAdmitted refutes.
Similarities_score_empty_is_zero(sims) ==
    IF sims = <<>> THEN Rat(0, 1) ELSE RatDivInt(SumScores(sims), Len(sims))

\* Similarities::score: the mean cost; 0.0 / 0.0 = NaN for an empty vector.
Similarities_score(sims) == RatDivInt(SumScores(sims), Len(sims))

\* vec![Discrete(Different); n]
Repeat(x, n) == [k \in 1..n |-> x]

(***************************************************************************)
(* types.rs: the query AST.  Symbols are sequences of characters.          *)
(***************************************************************************)
\* GenericArgs::AngleBracketed { args: Vec<Option<GenericArg>> }; an element is
\* None (the wildcard) or Some(GenericArg::Type(t)), written Some(t).
GenericArgs_AngleBracketed(args) == [kind |-> "AngleBracketed", args |-> args]

Type_UnresolvedPath(name, args) == [tag |-> "UnresolvedPath", name |-> name, args |-> args]

Type_Generic(name) == [tag |-> "Generic", name |-> name]

Type_Primitive(prim) == [tag |-> "Primitive", prim |-> prim]

Type_Tuple(elems) == [tag |-> "Tuple", elems |-> elems]

Type_Slice(elem) == [tag |-> "Slice", elem |-> elem]

Type_Never == [tag |-> "Never"]

Type_RawPointer(mutable, type_) == [tag |-> "RawPointer", mutable |-> mutable, type_ |-> type_]

Type_BorrowedRef(mutable, type_) == [tag |-> "BorrowedRef", mutable |-> mutable, type_ |-> type_]

\* PrimitiveType::as_str, on the variant's name.
PrimitiveType_as_str(prim) ==
    CASE prim = "Isize" -> "isize" [] prim = "I8" -> "i8" [] prim = "I16" -> "i16"
      [] prim = "I32" -> "i32" [] prim = "I64" -> "i64" [] prim = "I128" -> "i128"
      [] prim = "Usize" -> "usize" [] prim = "U8" -> "u8" [] prim = "U16" -> "u16"
      [] prim = "U32" -> "u32" [] prim = "U64" -> "u64" [] prim = "U128" -> "u128"
      [] prim = "F32" -> "f32" [] prim = "F64" -> "f64" [] prim = "Char" -> "char"
      [] prim = "Bool" -> "bool" [] prim = "Str" -> "str" [] prim = "Unit" -> "unit"
      [] prim = "Never" -> "never"

Argument(ty, name) == [ty |-> ty, name |-> name]

FnRetTy_Return(t) == [kind |-> "Return", ty |-> t]

FnRetTy_DefaultReturn == [kind |-> "DefaultReturn"]

\* FnDecl { inputs: Option<Vec<Argument>>, output: Option<FnRetTy> }; the vector
\* of a present inputs is wrapped in a record: Some([list |-> <<...>>]).
FnDecl(inputs, output) == [inputs |-> inputs, output |-> output]

Function(decl) == [decl |-> decl]

QueryKind_FunctionQuery(f) == [kind |-> "FunctionQuery", f |-> f]

Query(name, kind) == [name |-> name, kind |-> kind]

(***************************************************************************)
(* rustdoc_types, as far as compare.rs and search.rs read it.              *)
(***************************************************************************)
\* GenericArgs::AngleBracketed { args: Vec<GenericArg>, .. }; a GenericArg is
\* [kind |-> "Type", ty |-> t], or another kind (a lifetime, a constant).
types_AngleBracketed(args) == [kind |-> "AngleBracketed", args |-> args]

types_Parenthesized == [kind |-> "Parenthesized"]

types_GenericArg_Type(t) == [kind |-> "Type", ty |-> t]

types_GenericArg_Lifetime == [kind |-> "Lifetime"]

types_ResolvedPath(name, id, args) ==
    [tag |-> "ResolvedPath", name |-> name, id |-> id, args |-> args]

types_Generic(name) == [tag |-> "Generic", name |-> name]

types_Primitive(prim) == [tag |-> "Primitive", prim |-> prim]

types_Tuple(elems) == [tag |-> "Tuple", elems |-> elems]

types_Slice(elem) == [tag |-> "Slice", elem |-> elem]

types_Array(type_, len) == [tag |-> "Array", type_ |-> type_, len |-> len]

types_Never == [tag |-> "Never"]

types_ImplTrait == [tag |-> "ImplTrait"]

types_RawPointer(mutable, type_) == [tag |-> "RawPointer", mutable |-> mutable, type_ |-> type_]

types_BorrowedRef(mutable, type_) == [tag |-> "BorrowedRef", mutable |-> mutable, type_ |-> type_]

types_EqPredicate(lhs, rhs) == [kind |-> "EqPredicate", lhs |-> lhs, rhs |-> rhs]

types_Generics(params, where_predicates) ==
    [params |-> params, where_predicates |-> where_predicates]

\* Generics::default()
Generics_default == types_Generics(<<>>, <<>>)

\* FnDecl { inputs: Vec<(String, Type)>, output: Option<Type>, .. }
types_Arg(name, ty) == [name |-> name, ty |-> ty]

types_FnDecl(inputs, output) == [inputs |-> inputs, output |-> output]

ItemEnum_Function(decl, generics) == [kind |-> "Function", decl |-> decl, generics |-> generics]

ItemEnum_Method(decl, generics) == [kind |-> "Method", decl |-> decl, generics |-> generics]

ItemEnum_Impl(generics, trait_, for_, items) ==
    [kind |-> "Impl", generics |-> generics, trait_ |-> trait_, for_ |-> for_, items |-> items]

ItemEnum_Typedef(type_) == [kind |-> "Typedef", type_ |-> type_]

ItemEnum_Other(kind) == [kind |-> kind]

types_Item(id, name, docs, inner) == [id |-> id, name |-> name, docs |-> docs, inner |-> inner]

ItemSummary(path, kind) == [path |-> path, kind |-> kind]

\* Crate { index: HashMap<Id, Item>, paths: HashMap<Id, ItemSummary>, .. }
types_Crate(index, paths) == [index |-> index, paths |-> paths]

\* HashMap::get
MapGet(m, k) == IF k \in DOMAIN m THEN Some(m[k]) ELSE None

\* HashMap::insert
MapInsert(m, k, v) == [x \in (DOMAIN m) \cup {k} |-> IF x = k THEN v ELSE m[x]]

(***************************************************************************)
(* compare.rs: the comparator.  The two `&mut` parameters (generics,       *)
(* substs) travel in a context record that every compare returns with its  *)
(* atoms: Res(sims, ctx).  The context also records                        *)
(*   panicked - the unwrap at compare.rs:290 hit None;                     *)
(*   misses   - how often a bound generic met an unequal query type        *)
(*              (compare.rs:298), over everything that was executed;       *)
(*   dropped  - how many of those produced an atom that a typedef          *)
(*              alternative then threw away (compare.rs:324-328).          *)
(*   unpaid   - how many bindings were added to substs while computing a   *)
(*              typedef alternative that was then thrown away.             *)
(*   first    - for every key that substs ever received, the value of its  *)
(*              first insertion.                                           *)
(* The last four are history variables; the code keeps none of them.       *)
(***************************************************************************)
Ctx(generics, substs) ==
    [generics |-> generics, substs |-> substs, panicked |-> FALSE, misses |-> 0, dropped |-> 0,
     unpaid |-> 0, first |-> substs]

\* substs.insert(i.clone(), q.clone()) (compare.rs:301), which replaces the
\* value of a key that is present.
insert(ctx, name, q) ==
    [ctx EXCEPT !.substs = MapInsert(@, name, q),
                !.first = IF name \in DOMAIN @ THEN @ ELSE MapInsert(@, name, q)]

Res(sims, ctx) == [sims |-> sims, ctx |-> ctx]

\* The atoms of first followed by those of second, which was computed in the
\* context first left: sims.append(&mut ..).
Then(first, second) == Res(first.sims \o second.sims, second.ctx)

\* Compare_Symbol without the division by the longer length: a mutant that
\* C4_ValidAtomsNonEmptyIfNamedOrOutput refutes.
Compare_Symbol_unnormalised(self, symbol, ctx) ==
    Res(<<Continuous(levenshtein(self, symbol), 1)>>, ctx)

\* impl Compare<String> for Symbol
Compare_Symbol(self, symbol, ctx) ==
    Res(<<Continuous(levenshtein(self, symbol), Max2(Len(self), Len(symbol)))>>, ctx)

\* Compare_PrimitiveType on the variant's name instead of as_str: a mutant that
\* C6_ReflexivityWithoutGenericsOrNever refutes.
Compare_PrimitiveType_variant(self, prim_ty, ctx) ==
    IF self = prim_ty THEN Res(<<Equivalent>>, ctx)
    ELSE Res(<<Different>>, ctx)

\* impl Compare<String> for PrimitiveType
Compare_PrimitiveType(self, prim_ty, ctx) ==
    IF PrimitiveType_as_str(self) = prim_ty THEN Res(<<Equivalent>>, ctx)
    ELSE Res(<<Different>>, ctx)

\* The rhs of the first `Self` equality predicate of generics (compare.rs:277-289).
RECURSIVE SelfPredicate(_)
SelfPredicate(where_predicates) ==
    IF where_predicates = <<>> THEN None
    ELSE LET p == Head(where_predicates) IN
         IF p.kind = "EqPredicate" /\ p.lhs.tag = "Generic" /\ p.lhs.name = <<"S", "e", "l", "f">>
         THEN Some(p.rhs)
         ELSE SelfPredicate(Tail(where_predicates))

IsTypedefPath(rhs, krate) ==
    /\ rhs.tag = "ResolvedPath"
    /\ rhs.id \in DOMAIN krate.index
    /\ krate.index[rhs.id].inner.kind = "Typedef"

IsPointer(t) == t.tag \in {"RawPointer", "BorrowedRef"}

\* A variant that answers Different for a bound generic but overwrites the
\* binding, which C25_GenericBindingRule tells apart from the code.
GenericRule_overwriting(q, name, ctx) ==
    IF name \in DOMAIN ctx.substs
    THEN IF q = ctx.substs[name] THEN Res(<<Equivalent>>, ctx)
         ELSE Res(<<Different>>, [insert(ctx, name, q) EXCEPT !.misses = @ + 1])
    ELSE Res(<<Subequal>>, insert(ctx, name, q))

\* A variant that binds an unbound generic without the Subequal, which
\* C27_BindingsOutsideDiscardedAlternativesPaidFor tells apart from the code.
GenericRule_free_binding(q, name, ctx) ==
    IF name \in DOMAIN ctx.substs
    THEN IF q = ctx.substs[name] THEN Res(<<Equivalent>>, ctx)
         ELSE Res(<<Different>>, [ctx EXCEPT !.misses = @ + 1])
    ELSE Res(<<Equivalent>>, insert(ctx, name, q))

\* The generic-binding rule with a rebinding where the code refuses: a mutant
\* that C7_CoherenceOutsideDiscardedAlternatives refutes.
GenericRuleRebinding(q, name, ctx) ==
    IF name \in DOMAIN ctx.substs
    THEN IF q = ctx.substs[name] THEN Res(<<Equivalent>>, ctx)
         ELSE Res(<<Subequal>>, [insert(ctx, name, q) EXCEPT !.misses = @ + 1])
    ELSE Res(<<Subequal>>, insert(ctx, name, q))

\* compare_type, the arm (q, Type::Generic(i)) for i other than Self.
GenericRule(q, name, ctx) ==
    IF name \in DOMAIN ctx.substs
    THEN IF q = ctx.substs[name] THEN Res(<<Equivalent>>, ctx)
         ELSE Res(<<Different>>, [ctx EXCEPT !.misses = @ + 1])
    ELSE Res(<<Subequal>>, insert(ctx, name, q))

RECURSIVE compare_type(_, _, _, _, _)
RECURSIVE CompareTupleElems(_, _, _, _, _)
RECURSIVE CompareGenericArgs(_, _, _, _, _)

\* impl Compare<types::Type> for Type
Compare_Type(self, type_, krate, ctx) == compare_type(self, type_, krate, ctx, TRUE)

\* q.iter().zip(i.iter()).filter_map(..).flatten() of the tuple arm: positions
\* k.. of both; a query wildcard is skipped.
CompareTupleElems(q, i, k, krate, ctx) ==
    IF k > Len(q) \/ k > Len(i) THEN Res(<<>>, ctx)
    ELSE IF ~IsSome(q[k]) THEN CompareTupleElems(q, i, k + 1, krate, ctx)
    ELSE LET Rest(r1) == Then(r1, CompareTupleElems(q, i, k + 1, krate, r1.ctx))
         IN Rest(Compare_Type(q[k].val, i[k], krate, ctx))

\* q.zip(i).for_each(..) of the path arm (compare.rs:415-430).
CompareGenericArgs(q, i, k, krate, ctx) ==
    IF k > Len(q) \/ k > Len(i) THEN Res(<<>>, ctx)
    ELSE LET Rest(r1) == Then(r1, CompareGenericArgs(q, i, k + 1, krate, r1.ctx))
         IN Rest(IF ~IsSome(q[k]) THEN Res(<<>>, ctx)
                 ELSE IF i[k].kind = "Type" THEN Compare_Type(q[k].val, i[k].ty, krate, ctx)
                 ELSE Res(<<Different>>, ctx))

\* The atoms of one typedef alternative that the other one displaced: the
\* misses made while computing it, less those already counted as dropped.
MissesKept(before, after) == (after.misses - before.misses) - (after.dropped - before.dropped)

\* The bindings that one typedef alternative added to substs, less those
\* already counted as unpaid.
BindingsKept(before, after) ==
    (Cardinality(DOMAIN after.substs) - Cardinality(DOMAIN before.substs))
      - (after.unpaid - before.unpaid)

\* A variant that compares the underlying type without unfolding a further
\* alias, which C23_AliasChainUnfoldedLinkByLink tells apart from the code.
TypedefRule_unfold_once(lhs, rhs, krate, ctx) ==
    LET Cheaper(r_typedef, r_adt) ==
            IF RatLt(SumScores(r_adt.sims), SumScores(r_typedef.sims))
            THEN Res(r_adt.sims,
                     [r_adt.ctx EXCEPT !.dropped = @ + MissesKept(ctx, r_typedef.ctx),
                                       !.unpaid = @ + BindingsKept(ctx, r_typedef.ctx)])
            ELSE Res(r_typedef.sims,
                     [r_adt.ctx EXCEPT !.dropped = @ + MissesKept(r_typedef.ctx, r_adt.ctx),
                                       !.unpaid = @ + BindingsKept(r_typedef.ctx, r_adt.ctx)])
        sims_adt(r_typedef) ==
            compare_type(lhs, krate.index[rhs.id].inner.type_, krate, r_typedef.ctx, FALSE)
    IN CHOOSE kept \in UNION { { Cheaper(r_typedef, r_adt) : r_adt \in {sims_adt(r_typedef)} } :
                               r_typedef \in {compare_type(lhs, rhs, krate, ctx, FALSE)} } : TRUE

\* A variant that keeps the vector of the underlying type when the two costs
\* are equal, which C22_TypedefKeepsCheaperVector tells apart from the code.
TypedefRule_unfold_on_ties(lhs, rhs, krate, ctx) ==
    LET Cheaper(r_typedef, r_adt) ==
            IF RatLe(SumScores(r_adt.sims), SumScores(r_typedef.sims))
            THEN Res(r_adt.sims,
                     [r_adt.ctx EXCEPT !.dropped = @ + MissesKept(ctx, r_typedef.ctx),
                                       !.unpaid = @ + BindingsKept(ctx, r_typedef.ctx)])
            ELSE Res(r_typedef.sims,
                     [r_adt.ctx EXCEPT !.dropped = @ + MissesKept(r_typedef.ctx, r_adt.ctx),
                                       !.unpaid = @ + BindingsKept(r_typedef.ctx, r_adt.ctx)])
        sims_adt(r_typedef) ==
            Compare_Type(lhs, krate.index[rhs.id].inner.type_, krate, r_typedef.ctx)
    IN CHOOSE kept \in UNION { { Cheaper(r_typedef, r_adt) : r_adt \in {sims_adt(r_typedef)} } :
                               r_typedef \in {compare_type(lhs, rhs, krate, ctx, FALSE)} } : TRUE

\* A variant in which the vector that is kept brings its own table along, so
\* that what the underlying type bound is forgotten when the alias wins; it
\* is told apart from the code by C28_SubstitutionTableOnlyGrows.
TypedefRule_table_of_kept_vector(lhs, rhs, krate, ctx) ==
    LET Cheaper(r_typedef, r_adt) ==
            IF RatLt(SumScores(r_adt.sims), SumScores(r_typedef.sims))
            THEN Res(r_adt.sims,
                     [r_adt.ctx EXCEPT !.dropped = @ + MissesKept(ctx, r_typedef.ctx),
                                       !.unpaid = @ + BindingsKept(ctx, r_typedef.ctx)])
            ELSE Res(r_typedef.sims,
                     [r_adt.ctx EXCEPT !.dropped = @ + MissesKept(r_typedef.ctx, r_adt.ctx),
                                       !.substs = r_typedef.ctx.substs])
        sims_adt(r_typedef) ==
            Compare_Type(lhs, krate.index[rhs.id].inner.type_, krate, r_typedef.ctx)
    IN CHOOSE kept \in UNION { { Cheaper(r_typedef, r_adt) : r_adt \in {sims_adt(r_typedef)} } :
                               r_typedef \in {compare_type(lhs, rhs, krate, ctx, FALSE)} } : TRUE

\* compare_type, the arm for a path to a type alias (compare.rs:306-329):
\* sims_typedef first, then sims_adt in the context it left, each computed once.
TypedefRule(lhs, rhs, krate, ctx) ==
    LET Cheaper(r_typedef, r_adt) ==
            IF RatLt(SumScores(r_adt.sims), SumScores(r_typedef.sims))
            THEN Res(r_adt.sims,
                     [r_adt.ctx EXCEPT !.dropped = @ + MissesKept(ctx, r_typedef.ctx),
                                       !.unpaid = @ + BindingsKept(ctx, r_typedef.ctx)])
            ELSE Res(r_typedef.sims,
                     [r_adt.ctx EXCEPT !.dropped = @ + MissesKept(r_typedef.ctx, r_adt.ctx),
                                       !.unpaid = @ + BindingsKept(r_typedef.ctx, r_adt.ctx)])
        sims_adt(r_typedef) ==
            Compare_Type(lhs, krate.index[rhs.id].inner.type_, krate, r_typedef.ctx)
    IN CHOOSE kept \in UNION { { Cheaper(r_typedef, r_adt) : r_adt \in {sims_adt(r_typedef)} } :
                               r_typedef \in {compare_type(lhs, rhs, krate, ctx, FALSE)} } : TRUE

\* A variant that counts the candidate's generic arguments as mismatches
\* when the query has none, which C26_PathComparison tells apart from the code.
PathRule_counting_candidate_args(lhs, rhs, krate, ctx) ==
    LET Args(r_name) ==
            Then(r_name,
                 IF ~IsSome(lhs.args)
                 THEN IF IsSome(rhs.args) /\ rhs.args.val.kind = "AngleBracketed"
                      THEN Res(Repeat(Different, Len(rhs.args.val.args)), r_name.ctx)
                      ELSE Res(<<>>, r_name.ctx)
                 ELSE IF ~IsSome(rhs.args)
                      THEN Res(Repeat(Different, Len(lhs.args.val.args)), r_name.ctx)
                 ELSE IF rhs.args.val.kind = "AngleBracketed"
                      THEN CompareGenericArgs(lhs.args.val.args, rhs.args.val.args, 1, krate,
                                              r_name.ctx)
                 ELSE Res(<<>>, r_name.ctx))
    IN Args(Compare_Symbol(lhs.name, rhs.name, ctx))

\* compare_type, the arm (UnresolvedPath, ResolvedPath) (compare.rs:396-443).
PathRule(lhs, rhs, krate, ctx) ==
    LET Args(r_name) ==
            Then(r_name,
                 IF ~IsSome(lhs.args) THEN Res(<<>>, r_name.ctx)
                 ELSE IF ~IsSome(rhs.args)
                      THEN Res(Repeat(Different, Len(lhs.args.val.args)), r_name.ctx)
                 ELSE IF rhs.args.val.kind = "AngleBracketed"
                      THEN CompareGenericArgs(lhs.args.val.args, rhs.args.val.args, 1, krate,
                                              r_name.ctx)
                 ELSE Res(<<>>, r_name.ctx))
    IN Args(Compare_Symbol(lhs.name, rhs.name, ctx))

\* The pointer arms without the Subequal for a wrapper on one side only: a
\* mutant that C9_ReferenceToleranceSharedChains refutes.
PointerRule_silent(lhs, rhs, krate, ctx) ==
    LET Mutability(r) == IF lhs.mutable = rhs.mutable THEN r
                         ELSE Res(Append(r.sims, Subequal), r.ctx)
    IN IF lhs.tag = rhs.tag /\ IsPointer(lhs)
       THEN Mutability(Compare_Type(lhs.type_, rhs.type_, krate, ctx))
       ELSE IF IsPointer(rhs) THEN Compare_Type(lhs, rhs.type_, krate, ctx)
       ELSE Compare_Type(lhs.type_, rhs, krate, ctx)

\* compare_type, the arms that peel a pointer or a reference (compare.rs:357-395).
PointerRule(lhs, rhs, krate, ctx) ==
    LET Push(r) == Res(Append(r.sims, Subequal), r.ctx)
        Mutability(r) == IF lhs.mutable = rhs.mutable THEN r ELSE Push(r)
    IN IF lhs.tag = rhs.tag /\ IsPointer(lhs)
       THEN Mutability(Compare_Type(lhs.type_, rhs.type_, krate, ctx))
       ELSE IF IsPointer(rhs) THEN Push(Compare_Type(lhs, rhs.type_, krate, ctx))
       ELSE Push(Compare_Type(lhs.type_, rhs, krate, ctx))

\* fn compare_type: the arms in the order of the match.
\* A variant of the last arm that adds no atom, which
\* C14_ComparatorTotalOnDriverCandidates tells apart from the code.
OtherwiseRule_silent(ctx) == Res(<<>>, ctx)

\* compare.rs:445: `_ => vec![Discrete(Different)]`, the arm of every pair no
\* earlier arm takes.
OtherwiseRule(ctx) == Res(<<Different>>, ctx)

compare_type(lhs, rhs, krate, ctx, allow_recursion) ==
    LET Resolved(i) == IF IsSome(i) THEN Compare_Type(lhs, i.val, krate, ctx)
                       ELSE Res(<<>>, [ctx EXCEPT !.panicked = TRUE])
        abs_diff(a, b) == Max2(Len(a), Len(b)) - Min2(Len(a), Len(b))
        Tuples(r) == Res(Append(r.sims, Equivalent)
                           \o Repeat(Different, abs_diff(lhs.elems, rhs.elems)), r.ctx)
        Slices(r) == Res(<<Equivalent>> \o r.sims, r.ctx)
    IN IF rhs.tag = "Generic" /\ rhs.name = <<"S", "e", "l", "f">>
       THEN Resolved(SelfPredicate(ctx.generics.where_predicates))
       ELSE IF rhs.tag = "Generic" THEN GenericRule(lhs, rhs.name, ctx)
       ELSE IF IsTypedefPath(rhs, krate) /\ allow_recursion
       THEN TypedefRule(lhs, rhs, krate, ctx)
       ELSE IF lhs.tag = "Tuple" /\ rhs.tag = "Tuple"
       THEN Tuples(CompareTupleElems(lhs.elems, rhs.elems, 1, krate, ctx))
       ELSE IF lhs.tag = "Slice" /\ rhs.tag = "Slice"
       THEN IF IsSome(lhs.elem) THEN Slices(Compare_Type(lhs.elem.val, rhs.elem, krate, ctx))
            ELSE Res(<<Equivalent>>, ctx)
       ELSE IF IsPointer(lhs) \/ IsPointer(rhs) THEN PointerRule(lhs, rhs, krate, ctx)
       ELSE IF lhs.tag = "UnresolvedPath" /\ rhs.tag = "ResolvedPath"
       THEN PathRule(lhs, rhs, krate, ctx)
       ELSE IF lhs.tag = "Primitive" /\ rhs.tag = "Primitive"
       THEN Compare_PrimitiveType(lhs.prim, rhs.prim, ctx)
       ELSE OtherwiseRule(ctx)

\* Compare_Argument with a cost for a `_` in the place of the type: a mutant
\* that C8_WildcardNeverRaisesTotalCost refutes.
Compare_Argument_costly_wildcard(self, arg, krate, ctx) ==
    LET Typed(r_name) ==
            Then(r_name,
                 IF IsSome(self.ty) THEN Compare_Type(self.ty.val, arg.ty, krate, r_name.ctx)
                 ELSE Res(<<Different>>, r_name.ctx))
    IN Typed(IF IsSome(self.name) THEN Compare_Symbol(self.name.val, arg.name, ctx)
             ELSE Res(<<>>, ctx))

\* impl Compare<(String, types::Type)> for Argument
Compare_Argument(self, arg, krate, ctx) ==
    LET Typed(r_name) ==
            Then(r_name,
                 IF IsSome(self.ty) THEN Compare_Type(self.ty.val, arg.ty, krate, r_name.ctx)
                 ELSE Res(<<>>, r_name.ctx))
    IN Typed(IF IsSome(self.name) THEN Compare_Symbol(self.name.val, arg.name, ctx)
             ELSE Res(<<>>, ctx))

\* A variant that answers Different for DefaultReturn against a candidate
\* without a return type, which C21_PushRanksFirst tells apart from the code.
Compare_FnRetTy_default_differs(self, ret_ty, krate, ctx) ==
    IF self.kind = "Return" /\ IsSome(ret_ty) THEN Compare_Type(self.ty, ret_ty.val, krate, ctx)
    ELSE Res(<<Different>>, ctx)

\* impl Compare<Option<types::Type>> for FnRetTy
Compare_FnRetTy(self, ret_ty, krate, ctx) ==
    IF self.kind = "Return" /\ IsSome(ret_ty) THEN Compare_Type(self.ty, ret_ty.val, krate, ctx)
    ELSE IF self.kind = "DefaultReturn" /\ ~IsSome(ret_ty) THEN Res(<<Equivalent>>, ctx)
    ELSE Res(<<Different>>, ctx)

\* inputs.iter().enumerate().for_each(..) of FnDecl::compare (compare.rs:197-201).
RECURSIVE CompareInputs(_, _, _, _, _)
CompareInputs(inputs, decl_inputs, idx, krate, ctx) ==
    IF idx > Len(inputs) THEN Res(<<>>, ctx)
    ELSE LET Rest(r1) == Then(r1, CompareInputs(inputs, decl_inputs, idx + 1, krate, r1.ctx))
         IN Rest(IF idx <= Len(decl_inputs)
                 THEN Compare_Argument(inputs[idx], decl_inputs[idx], krate, ctx)
                 ELSE Res(<<>>, ctx))

\* impl Compare<types::FnDecl> for FnDecl
\* A variant that counts only the inputs the candidate lacks, not those it
\* has beyond the query's, which C24_InputAtomsByPosition tells apart from
\* the code.
Compare_FnDecl_missing_only(self, decl, krate, ctx) ==
    LET abs_diff(inputs) == Max2(Len(inputs), Len(decl.inputs))
                              - Min2(Len(inputs), Len(decl.inputs))
        Counted(inputs, r) ==
            IF Len(inputs) > Len(decl.inputs)
            THEN Res(r.sims \o Repeat(Different, abs_diff(inputs)), r.ctx)
            ELSE IF Len(inputs) = 0 /\ Len(decl.inputs) = 0
            THEN Res(Append(r.sims, Equivalent), r.ctx)
            ELSE r
        Inputs(inputs) == Counted(inputs, CompareInputs(inputs, decl.inputs, 1, krate, ctx))
        Output(r_in) ==
            Then(r_in,
                 IF IsSome(self.output)
                 THEN Compare_FnRetTy(self.output.val, decl.output, krate, r_in.ctx)
                 ELSE Res(<<>>, r_in.ctx))
    IN Output(IF IsSome(self.inputs) THEN Inputs(self.inputs.val.list) ELSE Res(<<>>, ctx))

\* A variant that reads an empty argument list like `..`, which
\* C17_EmptyListIsNotAnyInputs tells apart from the code.
Compare_FnDecl_empty_is_any(self, decl, krate, ctx) ==
    LET abs_diff(inputs) == Max2(Len(inputs), Len(decl.inputs))
                              - Min2(Len(inputs), Len(decl.inputs))
        Counted(inputs, r) ==
            IF Len(inputs) # Len(decl.inputs)
            THEN Res(r.sims \o Repeat(Different, abs_diff(inputs)), r.ctx)
            ELSE IF Len(inputs) = 0 /\ Len(decl.inputs) = 0
            THEN Res(Append(r.sims, Equivalent), r.ctx)
            ELSE r
        Inputs(inputs) == Counted(inputs, CompareInputs(inputs, decl.inputs, 1, krate, ctx))
        Output(r_in) ==
            Then(r_in,
                 IF IsSome(self.output)
                 THEN Compare_FnRetTy(self.output.val, decl.output, krate, r_in.ctx)
                 ELSE Res(<<>>, r_in.ctx))
    IN Output(IF IsSome(self.inputs) /\ self.inputs.val.list # <<>> THEN Inputs(self.inputs.val.list) ELSE Res(<<>>, ctx))

Compare_FnDecl(self, decl, krate, ctx) ==
    LET abs_diff(inputs) == Max2(Len(inputs), Len(decl.inputs))
                              - Min2(Len(inputs), Len(decl.inputs))
        Counted(inputs, r) ==
            IF Len(inputs) # Len(decl.inputs)
            THEN Res(r.sims \o Repeat(Different, abs_diff(inputs)), r.ctx)
            ELSE IF Len(inputs) = 0 /\ Len(decl.inputs) = 0
            THEN Res(Append(r.sims, Equivalent), r.ctx)
            ELSE r
        Inputs(inputs) == Counted(inputs, CompareInputs(inputs, decl.inputs, 1, krate, ctx))
        Output(r_in) ==
            Then(r_in,
                 IF IsSome(self.output)
                 THEN Compare_FnRetTy(self.output.val, decl.output, krate, r_in.ctx)
                 ELSE Res(<<>>, r_in.ctx))
    IN Output(IF IsSome(self.inputs) THEN Inputs(self.inputs.val.list) ELSE Res(<<>>, ctx))

\* generics.params.append(..); generics.where_predicates.append(..)
GenericsAppend(generics, other) ==
    types_Generics(generics.params \o other.params,
                   generics.where_predicates \o other.where_predicates)

\* impl Compare<types::Function> for Function, impl Compare<types::Method> for Function
Compare_Function(self, function, krate, ctx) ==
    Compare_FnDecl(self.decl, function.decl, krate,
                   [ctx EXCEPT !.generics = GenericsAppend(@, function.generics)])

\* impl Compare<types::ItemEnum> for QueryKind
Compare_QueryKind(self, kind, krate, ctx) ==
    IF kind.kind \in {"Function", "Method"} THEN Compare_Function(self.f, kind, krate, ctx)
    ELSE Res(<<Different>>, ctx)

\* impl Compare<types::Item> for Query
\* A variant that counts an absent kind as a mismatch, which
\* C16_NameOnlyQueryComparesNamesOnly tells apart from the code.
Compare_Query_kind_required(self, item, krate, ctx) ==
    LET Kind(r_name) ==
            Then(r_name,
                 IF IsSome(self.kind)
                 THEN Compare_QueryKind(self.kind.val, item.inner, krate, r_name.ctx)
                 ELSE Res(<<Different>>, r_name.ctx))
    IN Kind(IF IsSome(self.name) /\ IsSome(item.name)
            THEN Compare_Symbol(self.name.val, item.name.val, ctx)
            ELSE IF IsSome(self.name) THEN Res(<<Different>>, ctx)
            ELSE Res(<<>>, ctx))

Compare_Query(self, item, krate, ctx) ==
    LET Kind(r_name) ==
            Then(r_name,
                 IF IsSome(self.kind)
                 THEN Compare_QueryKind(self.kind.val, item.inner, krate, r_name.ctx)
                 ELSE Res(<<>>, r_name.ctx))
    IN Kind(IF IsSome(self.name) /\ IsSome(item.name)
            THEN Compare_Symbol(self.name.val, item.name.val, ctx)
            ELSE IF IsSome(self.name) THEN Res(<<Different>>, ctx)
            ELSE Res(<<>>, ctx))

(***************************************************************************)
(* parse.rs: the query parser, a nom parser.  A parser maps its input (a    *)
(* sequence of characters) to PErr or to POk(rest, val).  alt takes the     *)
(* first alternative that succeeds and never returns to a later one; opt    *)
(* turns a failure into None without consuming.                             *)
(***************************************************************************)
PErr == [ok |-> FALSE]

POk(rest, val) == [ok |-> TRUE, rest |-> rest, val |-> val]

AsciiUppercase == {"A", "B", "C", "D", "E", "F", "G", "H", "I", "J", "K", "L", "M", "N", "O", "P", "Q", "R", "S", "T", "U", "V", "W", "X", "Y", "Z"}

AsciiLowercase == {"a", "b", "c", "d", "e", "f", "g", "h", "i", "j", "k", "l", "m", "n", "o", "p", "q", "r", "s", "t", "u", "v", "w", "x", "y", "z"}

AsciiDigit == {"0", "1", "2", "3", "4", "5", "6", "7", "8", "9"}

Whitespace == {" ", "\t", "\n", "\r"}

Drop(i, n) == SubSeq(i, n + 1, Len(i))

\* tag(t) / char(c) succeeds on i
StartsWith(i, t) == Len(i) >= Len(t) /\ SubSeq(i, 1, Len(t)) = t

\* The length of the longest prefix of i whose characters are all in S.
RECURSIVE CountWhile(_, _)
CountWhile(i, S) == IF i # <<>> /\ Head(i) \in S THEN 1 + CountWhile(Tail(i), S) ELSE 0

multispace0(i) == Drop(i, CountWhile(i, Whitespace))

\* fn parse_symbol
parse_symbol(i) ==
    IF i = <<>> THEN PErr
    ELSE LET first == IF Head(i) = "_" THEN 1
                      ELSE CountWhile(i, AsciiUppercase \cup AsciiLowercase)
             more == CountWhile(Drop(i, first),
                                {"_"} \cup AsciiUppercase \cup AsciiLowercase \cup AsciiDigit)
         IN IF first = 0 THEN PErr
            ELSE POk(Drop(i, first + more), SubSeq(i, 1, first + more))

\* The alternatives of parse_primitive_type, in order.
PrimitiveTags ==
    << [tag |-> <<"i", "s", "i", "z", "e">>, prim |-> "Isize"],
       [tag |-> <<"i", "8">>, prim |-> "I8"],
       [tag |-> <<"i", "1", "6">>, prim |-> "I16"],
       [tag |-> <<"i", "3", "2">>, prim |-> "I32"],
       [tag |-> <<"i", "6", "4">>, prim |-> "I64"],
       [tag |-> <<"i", "1", "2", "8">>, prim |-> "I128"],
       [tag |-> <<"u", "s", "i", "z", "e">>, prim |-> "Usize"],
       [tag |-> <<"u", "8">>, prim |-> "U8"],
       [tag |-> <<"u", "1", "6">>, prim |-> "U16"],
       [tag |-> <<"u", "3", "2">>, prim |-> "U32"],
       [tag |-> <<"u", "6", "4">>, prim |-> "U64"],
       [tag |-> <<"u", "1", "2", "8">>, prim |-> "U128"],
       [tag |-> <<"f", "3", "2">>, prim |-> "F32"],
       [tag |-> <<"f", "6", "4">>, prim |-> "F64"],
       [tag |-> <<"c", "h", "a", "r">>, prim |-> "Char"],
       [tag |-> <<"b", "o", "o", "l">>, prim |-> "Bool"],
       [tag |-> <<"s", "t", "r">>, prim |-> "Str"] >>

\* fn parse_primitive_type
RECURSIVE ParsePrimitiveFrom(_, _)
ParsePrimitiveFrom(i, k) ==
    IF k > Len(PrimitiveTags) THEN PErr
    ELSE IF StartsWith(i, PrimitiveTags[k].tag)
    THEN POk(Drop(i, Len(PrimitiveTags[k].tag)), PrimitiveTags[k].prim)
    ELSE ParsePrimitiveFrom(i, k + 1)

parse_primitive_type(i) == ParsePrimitiveFrom(i, 1)

\* fn parse_generic_type
parse_generic_type(i) ==
    LET n == CountWhile(i, AsciiUppercase)
        rest == Drop(i, n)
    IN IF n = 0 THEN PErr
       ELSE IF rest # <<>> /\ Head(rest) \in AsciiLowercase THEN PErr
       ELSE POk(rest, Type_Generic(SubSeq(i, 1, n)))

\* alt((first, other)): the first alternative that succeeds.
Alt(first, other) == IF first.ok THEN first ELSE other

\* char('_') read as the value val
Wildcard(i, val) == IF StartsWith(i, <<"_">>) THEN POk(Drop(i, 1), val) ELSE PErr

RECURSIVE parse_type(_)
RECURSIVE ParseElem(_, _)
RECURSIVE SeparatedLoop(_, _, _)

\* separated_list0(char(','), elem): the elements parsed so far are res and i is
\* the input after the last of them.  A separator whose element fails is given
\* back.
SeparatedLoop(kind, i, res) ==
    IF ~StartsWith(i, <<",">>) THEN POk(i, res)
    ELSE LET More(r) == IF r.ok THEN SeparatedLoop(kind, r.rest, Append(res, r.val))
                        ELSE POk(i, res)
         IN More(ParseElem(kind, Drop(i, 1)))

separated_list0(kind, i) ==
    LET More(r) == IF r.ok THEN SeparatedLoop(kind, r.rest, <<r.val>>) ELSE POk(i, <<>>)
    IN More(ParseElem(kind, i))

\* fn parse_generic_args
parse_generic_args(i) ==
    IF ~StartsWith(i, <<"<">>) THEN PErr
    ELSE LET Close(r) == IF StartsWith(r.rest, <<">">>)
                         THEN POk(Drop(r.rest, 1), GenericArgs_AngleBracketed(r.val))
                         ELSE PErr
         IN Close(separated_list0("generic_arg", Drop(i, 1)))

\* fn parse_unresolved_path
parse_unresolved_path(i) ==
    LET WithArgs(n, a) == IF a.ok THEN POk(a.rest, Type_UnresolvedPath(n.val, Some(a.val)))
                          ELSE POk(n.rest, Type_UnresolvedPath(n.val, None))
        Named(n) == IF ~n.ok THEN PErr ELSE WithArgs(n, parse_generic_args(n.rest))
    IN Named(parse_symbol(i))

\* fn parse_tuple
parse_tuple(i) ==
    IF ~StartsWith(i, <<"(">>) THEN PErr
    ELSE LET Close(r) == IF StartsWith(r.rest, <<")">>)
                         THEN POk(Drop(r.rest, 1), Type_Tuple(r.val))
                         ELSE PErr
         IN Close(separated_list0("tuple_elem", Drop(i, 1)))

\* The type t as a list element or a slice element: Some(t).
Present(t) == IF t.ok THEN POk(t.rest, Some(t.val)) ELSE PErr

\* fn parse_slice
parse_slice(i) ==
    IF ~StartsWith(i, <<"[">>) THEN PErr
    ELSE LET Close(r) == IF r.ok /\ StartsWith(r.rest, <<"]">>)
                         THEN POk(Drop(r.rest, 1), Type_Slice(r.val))
                         ELSE PErr
         IN Close(Alt(Wildcard(Drop(i, 1), None), Present(parse_type(Drop(i, 1)))))

\* fn parse_raw_pointer
parse_raw_pointer(i) ==
    LET m == IF StartsWith(i, <<"*", "m", "u", "t">>) THEN POk(Drop(i, 4), [b |-> TRUE])
             ELSE IF StartsWith(i, <<"*", "c", "o", "n", "s", "t">>)
             THEN POk(Drop(i, 6), [b |-> FALSE])
             ELSE PErr
        Pointee(t) == IF t.ok THEN POk(t.rest, Type_RawPointer(m.val.b, t.val)) ELSE PErr
    IN IF ~m.ok THEN PErr ELSE Pointee(parse_type(m.rest))

\* fn parse_borrowed_ref
parse_borrowed_ref(i) ==
    LET m == IF StartsWith(i, <<"&", "m", "u", "t">>) THEN POk(Drop(i, 4), [b |-> TRUE])
             ELSE IF StartsWith(i, <<"&">>) THEN POk(Drop(i, 1), [b |-> FALSE])
             ELSE PErr
        Referent(t) == IF t.ok THEN POk(t.rest, Type_BorrowedRef(m.val.b, t.val)) ELSE PErr
    IN IF ~m.ok THEN PErr ELSE Referent(parse_type(m.rest))

\* map(parse_primitive_type, Type::Primitive)
PrimitiveAsType(p) == IF p.ok THEN POk(p.rest, Type_Primitive(p.val)) ELSE PErr

\* value(Type::Never, char('!'))
parse_never(i) == IF StartsWith(i, <<"!">>) THEN POk(Drop(i, 1), Type_Never) ELSE PErr

\* The alternatives of parse_type in the order of its alt, on the input after
\* multispace0.
TypeAlternatives(i) ==
    Alt(PrimitiveAsType(parse_primitive_type(i)),
    Alt(parse_generic_type(i),
    Alt(parse_unresolved_path(i),
    Alt(parse_tuple(i),
    Alt(parse_slice(i),
    Alt(parse_never(i),
    Alt(parse_raw_pointer(i),
        parse_borrowed_ref(i))))))))

\* fn parse_type
parse_type(i0) == TypeAlternatives(multispace0(i0))

\* fn parse_argument
parse_argument(i) ==
    LET name == Alt(Wildcard(i, None), Alt(Present(parse_symbol(i)), POk(i, None)))
        Typed(i1, t) == IF StartsWith(i1, <<"_">>) THEN POk(Drop(i1, 1), Argument(None, name.val))
                        ELSE IF t.ok THEN POk(t.rest, Argument(Some(t.val), name.val))
                        ELSE POk(i1, Argument(None, name.val))
        AfterColon(i1) == Typed(i1, parse_type(i1))
    IN IF ~StartsWith(name.rest, <<":">>) THEN PErr
       ELSE AfterColon(multispace0(Drop(name.rest, 1)))

\* The element parsers of the three separated lists: parse_arguments
\* (parse.rs:87-103), parse_tuple (parse.rs:161-164), parse_generic_args
\* (parse.rs:243-249), each after multispace0.
ParseElem(kind, i0) ==
    LET Elem(i, t) ==
            IF kind = "argument"
            THEN Alt(parse_argument(i),
                 Alt(Wildcard(i, Argument(None, None)),
                     IF t.ok THEN POk(t.rest, Argument(Some(t.val), None)) ELSE PErr))
            ELSE IF kind = "tuple_elem" THEN Alt(Wildcard(i, None), Present(t))
            ELSE Alt(Wildcard(i, None), Alt(Present(t), POk(i, None)))
        Trimmed(i) == Elem(i, parse_type(i))
    IN Trimmed(multispace0(i0))

\* fn parse_arguments
parse_arguments(i) == separated_list0("argument", i)

\* A variant without the alternative for the end of the input, which
\* C29_EndOfListIsDefaultReturn tells apart from the code.
parse_output_return_only(i0) ==
    LET Output(i, t) ==
            IF StartsWith(i, <<"-", ">">>) /\ t.ok THEN POk(t.rest, FnRetTy_Return(t.val))
            ELSE PErr
        Trimmed(i) == Output(i, parse_type(Drop(i, 2)))
    IN Trimmed(multispace0(i0))

\* fn parse_output
parse_output(i0) ==
    LET Output(i, t) ==
            IF StartsWith(i, <<"-", ">">>) /\ t.ok THEN POk(t.rest, FnRetTy_Return(t.val))
            ELSE IF i = <<>> THEN POk(i, FnRetTy_DefaultReturn)
            ELSE PErr
        Trimmed(i) == Output(i, parse_type(Drop(i, 2)))
    IN Trimmed(multispace0(i0))

\* fn parse_function_decl
parse_function_decl(i) ==
    IF ~StartsWith(i, <<"(">>) THEN PErr
    ELSE LET WithOutput(inputs, i2, out) ==
                 IF out.ok THEN POk(out.rest, FnDecl(inputs.val, Some(out.val)))
                 ELSE POk(i2, FnDecl(inputs.val, None))
             AfterParen(inputs, i2) == WithOutput(inputs, i2, parse_output(i2))
             Close(inputs) == IF ~StartsWith(inputs.rest, <<")">>) THEN PErr
                              ELSE AfterParen(inputs, Drop(inputs.rest, 1))
             Listed(args) == POk(args.rest, Some([list |-> args.val]))
         IN Close(IF StartsWith(Drop(i, 1), <<".", ".">>) THEN POk(Drop(i, 3), None)
                  ELSE Listed(parse_arguments(Drop(i, 1))))

\* fn parse_function
parse_function(i) ==
    LET Decl(d) == IF d.ok THEN POk(d.rest, Function(d.val)) ELSE PErr
    IN Decl(parse_function_decl(i))

\* fn parse_function_query
parse_function_query(i) ==
    IF ~StartsWith(i, <<"f", "n">>) \/ CountWhile(Drop(i, 2), Whitespace) = 0 THEN PErr
    ELSE LET Kind(name, i2, f) ==
                 IF f.ok THEN POk(f.rest, Query(name, Some(QueryKind_FunctionQuery(f.val))))
                 ELSE POk(i2, Query(name, None))
             Named(name, i2) == Kind(name, i2, parse_function(i2))
             Symbol(i1, sym) == Named(IF sym.ok THEN Some(sym.val) ELSE None,
                                      IF sym.ok THEN sym.rest ELSE i1)
             Trimmed(i1) == Symbol(i1, parse_symbol(i1))
         IN Trimmed(multispace0(Drop(i, 2)))

\* fn parse_query
parse_query(i) == parse_function_query(i)

(***************************************************************************)
(* Writing a query as text, in the grammar parse.rs reads.  The text of a  *)
(* request is what a user types; these operators build the texts the      *)
(* model draws its requests from.                                          *)
(***************************************************************************)
RECURSIVE PrintType(_)
RECURSIVE PrintList(_, _, _)

\* The elements of list from position k on, separated by ", "; kind says how one
\* element is written.
PrintList(kind, list, k) ==
    IF k > Len(list) THEN <<>>
    ELSE LET e == list[k]
             one == IF kind = "argument"
                    THEN IF ~IsSome(e.name) /\ ~IsSome(e.ty) THEN <<"_">>
                         ELSE IF ~IsSome(e.name) THEN PrintType(e.ty.val)
                         ELSE e.name.val \o <<":", " ">>
                                \o (IF IsSome(e.ty) THEN PrintType(e.ty.val) ELSE <<"_">>)
                    ELSE IF IsSome(e) THEN PrintType(e.val) ELSE <<"_">>
         IN one \o (IF k < Len(list) THEN <<",", " ">> ELSE <<>>) \o PrintList(kind, list, k + 1)

\* The spelling of a primitive type: as_str, which is the tag parse_primitive_type reads.
PrintPrimitive(prim) ==
    LET k == CHOOSE j \in 1..Len(PrimitiveTags) : PrimitiveTags[j].prim = prim
    IN PrimitiveTags[k].tag

PrintType(t) ==
    CASE t.tag = "UnresolvedPath" ->
            t.name \o (IF IsSome(t.args)
                       THEN <<"<">> \o PrintList("option", t.args.val.args, 1) \o <<">">>
                       ELSE <<>>)
      [] t.tag = "Generic" -> t.name
      [] t.tag = "Primitive" -> PrintPrimitive(t.prim)
      [] t.tag = "Tuple" -> <<"(">> \o PrintList("option", t.elems, 1) \o <<")">>
      [] t.tag = "Slice" ->
            <<"[">> \o (IF IsSome(t.elem) THEN PrintType(t.elem.val) ELSE <<"_">>) \o <<"]">>
      [] t.tag = "Never" -> <<"!">>
      [] t.tag = "RawPointer" ->
            (IF t.mutable THEN <<"*", "m", "u", "t", " ">>
             ELSE <<"*", "c", "o", "n", "s", "t", " ">>) \o PrintType(t.type_)
      [] t.tag = "BorrowedRef" ->
            (IF t.mutable THEN <<"&", "m", "u", "t", " ">> ELSE <<"&">>) \o PrintType(t.type_)

\* An absent output is what the parser leaves when the text after the argument
\* list is neither a return type nor the end of the input; it is written ";".
PrintFnDecl(decl) ==
    <<"(">>
      \o (IF IsSome(decl.inputs) THEN PrintList("argument", decl.inputs.val.list, 1)
          ELSE <<".", ".">>)
      \o <<")">>
      \o (IF ~IsSome(decl.output) THEN <<";">>
          ELSE IF decl.output.val.kind = "Return"
          THEN <<" ", "-", ">", " ">> \o PrintType(decl.output.val.ty)
          ELSE <<>>)

PrintQuery(q) ==
    <<"f", "n", " ">>
      \o (IF IsSome(q.name) THEN q.name.val ELSE <<>>)
      \o (IF IsSome(q.kind) THEN PrintFnDecl(q.kind.val.f.decl) ELSE <<>>)

(***************************************************************************)
(* The inputs the model draws from.                                        *)
(***************************************************************************)
\* The bounds of the model.
MaxInputs == 2

MaxScopeLen == 2

SeqsUpTo(S, n) == UNION {[1..k -> S] : k \in 0..n}

s_foo == <<"f", "o", "o">>

s_fo == <<"f", "o">>

s_a == <<"a">>

s_T == <<"T">>

s_U == <<"U">>

s_Vec == <<"V", "e", "c">>

s_Al == <<"A", "l">>

s_Id == <<"I", "d">>

s_Al2 == <<"A", "l", "2">>

s_Self == <<"S", "e", "l", "f">>

\* Candidate types: i32, u8, T, U, Self, Vec<T>, Vec<i32>, Vec<'a>, Vec, and the
\* aliases  type Al = Vec<T>;  type Id = i32;  (items "alias" and "id" below).
c_i32 == types_Primitive("i32")

c_u8 == types_Primitive("u8")

c_T == types_Generic(s_T)

c_U == types_Generic(s_U)

c_Self == types_Generic(s_Self)

c_Vec(args) == types_ResolvedPath(s_Vec, "vec", Some(types_AngleBracketed(args)))

c_VecT == c_Vec(<<types_GenericArg_Type(c_T)>>)

c_Al == types_ResolvedPath(s_Al, "alias", Some(types_AngleBracketed(<<>>)))

c_AlBare == types_ResolvedPath(s_Al, "alias", None)

c_Id == types_ResolvedPath(s_Id, "id", None)

c_Al2 == types_ResolvedPath(s_Al2, "alias2", None)

\* The candidate types of declarations with several inputs.
SmallCandTypes == {c_i32, c_T, c_Al}

\* The candidate types of declarations with one input.
RichCandTypes ==
    { c_u8, c_U, c_VecT, c_Vec(<<types_GenericArg_Type(c_i32)>>),
      c_Vec(<<types_GenericArg_Lifetime, types_GenericArg_Type(c_T)>>),
      types_ResolvedPath(s_Vec, "vec", None),
      types_ResolvedPath(s_Vec, "vec", Some(types_Parenthesized)),
      c_AlBare, c_Id, c_Al2,
      types_BorrowedRef(FALSE, c_T), types_BorrowedRef(TRUE, c_i32),
      types_BorrowedRef(FALSE, types_BorrowedRef(TRUE, c_i32)),
      types_RawPointer(FALSE, c_u8), types_RawPointer(TRUE, c_Al),
      types_Tuple(<<>>), types_Tuple(<<c_i32, c_T>>), types_Tuple(<<c_T, c_T>>),
      types_Slice(c_u8), types_Slice(c_T),
      types_Array(c_i32, "3"), types_Never, types_ImplTrait }

\* The crate the comparator's candidates live in: its index holds the aliases
\* Al = Vec<T>, Id = i32 and Al2 = Al, which is all compare_type looks up.
CatalogCrate ==
    types_Crate(
        [id \in {"alias", "id", "alias2"} |->
            IF id = "alias" THEN types_Item("alias", Some(s_Al), None, ItemEnum_Typedef(c_VecT))
            ELSE IF id = "alias2"
            THEN types_Item("alias2", Some(s_Al2), None, ItemEnum_Typedef(c_AlBare))
            ELSE types_Item("id", Some(s_Id), None, ItemEnum_Typedef(c_i32))],
        [id \in {"vec"} |-> ItemSummary(<<s_Vec>>, "Struct")])

NamedInputs(tys) == [k \in 1..Len(tys) |-> types_Arg(s_a, tys[k])]

FunctionItem(name, tys, output) ==
    types_Item("fn", Some(name), None,
               ItemEnum_Function(types_FnDecl(NamedInputs(tys), output), Generics_default))

MethodItem(name, tys, output) ==
    types_Item("method", Some(name), None,
               ItemEnum_Method(types_FnDecl(NamedInputs(tys), output), Generics_default))

\* impl<T> Vec<T> { .. }
VecImpl == ItemEnum_Impl(Generics_default, None, c_VecT, <<"method">>)

\* A candidate as Index::search hands it to Index::compare: the item, and the
\* impl that lists it when it is a method.
Candidate(item, impl_) == [item |-> item, impl_ |-> impl_]

Candidates ==
    { Candidate(FunctionItem(s_foo, tys, out), None) :
        tys \in SeqsUpTo(SmallCandTypes, MaxInputs), out \in {None, Some(c_T)} }
    \cup { Candidate(FunctionItem(s_foo, <<ty>>, None), None) : ty \in RichCandTypes }
    \cup { Candidate(MethodItem(s_foo, <<ty, c_T>>, None), Some(VecImpl)) :
             ty \in {c_Self, types_BorrowedRef(TRUE, c_Self)} }

\* Query types: i32, u8, T, Al, Al<u8>, Vec, Vec<i32>, Vec<T>, Vec<_>, ...
q_i32 == Type_Primitive("I32")

q_u8 == Type_Primitive("U8")

q_T == Type_Generic(s_T)

q_Path(name, args) == Type_UnresolvedPath(name, Some(GenericArgs_AngleBracketed(args)))

q_AlU8 == q_Path(s_Al, <<Some(q_u8)>>)

\* The arguments of queries with several inputs: `_`, `i32`, `u8`, `Al<u8>`.
SmallArguments ==
    { Argument(None, None), Argument(Some(q_i32), None), Argument(Some(q_u8), None),
      Argument(Some(q_AlU8), None) }

\* The arguments of queries with one input.
RichArguments ==
    { Argument(Some(q_i32), Some(s_a)), Argument(None, Some(s_a)),
      Argument(Some(q_T), Some(<<"b">>)), Argument(Some(q_T), None) }
    \cup { Argument(Some(t), None) :
             t \in { Type_UnresolvedPath(s_Vec, None), Type_UnresolvedPath(s_Al, None),
                     Type_UnresolvedPath(s_Id, None),
                     q_Path(s_Vec, <<Some(q_i32)>>), q_Path(s_Vec, <<Some(q_T)>>),
                     q_Path(s_Vec, <<None>>), q_Path(s_Vec, <<Some(q_i32), Some(q_u8)>>),
                     Type_BorrowedRef(FALSE, q_i32), Type_BorrowedRef(TRUE, q_T),
                     Type_BorrowedRef(TRUE, q_Path(s_Vec, <<Some(q_T)>>)),
                     Type_RawPointer(TRUE, q_u8),
                     Type_Tuple(<<>>), Type_Tuple(<<Some(q_i32), None>>),
                     Type_Tuple(<<Some(q_i32), Some(q_u8)>>),
                     Type_Slice(None), Type_Slice(Some(q_u8)), Type_Never } }

QueryOutputs == {None, Some(FnRetTy_DefaultReturn), Some(FnRetTy_Return(q_T))}

\* Declarations with up to MaxInputs inputs.
WideDecls ==
    { FnDecl(Some([list |-> args]), out) :
        args \in SeqsUpTo(SmallArguments, MaxInputs), out \in {None, Some(FnRetTy_Return(q_T))} }

\* Declarations without an argument list, or with one input.
NarrowDecls ==
    { FnDecl(None, out) : out \in QueryOutputs }
    \cup { FnDecl(Some([list |-> <<>>]), Some(FnRetTy_DefaultReturn)) }
    \cup { FnDecl(Some([list |-> <<arg>>]), None) : arg \in RichArguments }

QueryAsts ==
    { Query(None, Some(QueryKind_FunctionQuery(Function(decl)))) : decl \in WideDecls }
    \cup { Query(name, Some(QueryKind_FunctionQuery(Function(decl)))) :
              name \in {None, Some(s_fo)}, decl \in NarrowDecls }
    \cup { Query(name, None) : name \in {None, Some(s_fo), Some(s_foo)} }

\* The texts of the requests.
QueryTexts == { PrintQuery(q) : q \in QueryAsts }

(***************************************************************************)
(* search.rs: Hit, SearchError, Scope, Index::compare, Index::path_and_link *)
(***************************************************************************)
Hit(name, path, link, docs, similarities) ==
    [name |-> name, path |-> path, link |-> link, docs |-> docs, similarities |-> similarities]

SearchError_CrateNotFound(name) == [kind |-> "CrateNotFound", krate |-> name]

SearchError_ItemNotFound(id, name) == [kind |-> "ItemNotFound", id |-> id, krate |-> name]

\* A panic of the thread that runs the search (an unwrap of None, unreachable!()).
Panic == [kind |-> "Panic"]

Scope_Crate(krate) == [kind |-> "Crate", krate |-> krate]

Scope_Set(krates) == [kind |-> "Set", krates |-> krates]

\* Scope::flatten
Scope_flatten(self) == IF self.kind = "Crate" THEN <<self.krate>> ELSE self.krates

VARIABLES
    pc,         \* where the request is: "request", "parsed", "rejected", "compared", "replaced",
                \* "crates", "items", "assoc", "done", "responded"
    text,       \* the query text of the request
    query,      \* Option<Query>: what parse_query made of text
    cand,       \* the candidate handed to Index::compare on its own
    out,        \* Option: the result of that comparison
    prev,       \* Option: the result before a subterm of the query became `_`
    index,      \* the Index: the crates by name
    scope,      \* the Scope of the search
    threshold,  \* the threshold of the search
    krates,     \* Index::search: the crate names still to visit
    krate_name, \* Index::search: the crate being visited
    pending,    \* Index::search: the ids krate.index.values() has yet to yield
    assoc,      \* Index::search: the ids of the current impl still to visit
    impl_id,    \* Index::search: the id of the impl being visited
    hits,       \* Index::search: the Vec<Hit> built so far
    result,     \* Option: what Index::search returned
    generics,   \* the Generics of the last Index::compare, as the call left it
    substs,     \* the substitution table of the last Index::compare, as the call left it
    response,   \* Option: what the /search handler replied
    unshaken    \* Option: what Index::search returned over the crates as they were read

vars ==
    << pc, text, query, cand, out, prev, index, scope, threshold, krates, krate_name,
       pending, assoc, impl_id, hits, result, generics, substs, response, unshaken >>

\* Index::compare, with the substitution table of the previous call left in
\* place instead of a fresh one: a mutant that C10_NoCrossCandidateInterference
\* refutes.
Index_compare_stale(query_, item, krate, impl_) ==
    Compare_Query(query_, item, krate,
                  Ctx(IF IsSome(impl_)
                      THEN types_Generics(impl_.val.generics.params,
                                          Append(impl_.val.generics.where_predicates,
                                                 types_EqPredicate(types_Generic(s_Self),
                                                                   impl_.val.for_)))
                      ELSE Generics_default,
                      substs))

\* Index::compare: a fresh context for every candidate.
Index_compare(query_, item, krate, impl_) ==
    Compare_Query(query_, item, krate,
                  Ctx(IF IsSome(impl_)
                      THEN types_Generics(impl_.val.generics.params,
                                          Append(impl_.val.generics.where_predicates,
                                                 types_EqPredicate(types_Generic(s_Self),
                                                                   impl_.val.for_)))
                      ELSE Generics_default,
                      <<>>))

PathOk(path, link) == [kind |-> "Ok", path |-> path, link |-> link]

\* get_path (search.rs:182-191)
get_path(krate, krate_name_, id) ==
    IF id \in DOMAIN krate.paths THEN PathOk(krate.paths[id].path, <<>>)
    ELSE SearchError_ItemNotFound(id, krate_name_)

\* link.last_mut() = f(last)
ReplaceLast(link, seg) == IF link = <<>> THEN link ELSE [link EXCEPT ![Len(link)] = seg]

Html(prefix, name) == prefix \o <<".">> \o name \o <<".", "h", "t", "m", "l">>

\* The characters of the name of a rustdoc primitive: rustdoc's names are held
\* as strings, path segments as character sequences.
PrimitiveChars(prim) ==
    LET ks == {k \in 1..Len(PrimitiveTags) : PrimitiveType_as_str(PrimitiveTags[k].prim) = prim}
    IN IF ks = {} THEN <<prim>> ELSE PrimitiveTags[CHOOSE k \in ks : TRUE].tag

\* The receiver of an associated item (search.rs:197-256): Ok with the path of
\* the type and, in link, the file name that replaces its last segment.
Receiver(krate, krate_name_, impl_) ==
    LET for_ == impl_.for_ IN
    IF IsSome(impl_.trait_)
    THEN IF impl_.trait_.val.tag = "ResolvedPath"
         THEN LET p == get_path(krate, krate_name_, impl_.trait_.val.id) IN
              IF p.kind = "Ok" THEN PathOk(p.path, Html(<<"t", "r", "a", "i", "t">>, impl_.trait_.val.name)) ELSE p
         ELSE Panic
    ELSE IF for_.tag = "ResolvedPath"
    THEN LET p == get_path(krate, krate_name_, for_.id) IN
         IF p.kind # "Ok" THEN p
         ELSE IF krate.paths[for_.id].kind = "Union" THEN PathOk(p.path, Html(<<"u", "n", "i", "o", "n">>, for_.name))
         ELSE IF krate.paths[for_.id].kind = "Enum" THEN PathOk(p.path, Html(<<"e", "n", "u", "m">>, for_.name))
         ELSE IF krate.paths[for_.id].kind = "Struct"
         THEN PathOk(p.path, Html(<<"s", "t", "r", "u", "c", "t">>, for_.name))
         ELSE Panic
    ELSE IF for_.tag = "Primitive"
    THEN PathOk(<<PrimitiveChars(for_.prim)>>, Html(<<"p", "r", "i", "m", "i", "t", "i", "v", "e">>, PrimitiveChars(for_.prim)))
    ELSE IF for_.tag = "Tuple" THEN PathOk(<<<<"t", "u", "p", "l", "e">>>>, Html(<<"p", "r", "i", "m", "i", "t", "i", "v", "e">>, <<"t", "u", "p", "l", "e">>))
    ELSE IF for_.tag = "Slice" THEN PathOk(<<<<"s", "l", "i", "c", "e">>>>, Html(<<"p", "r", "i", "m", "i", "t", "i", "v", "e">>, <<"s", "l", "i", "c", "e">>))
    ELSE IF for_.tag = "Array" THEN PathOk(<<<<"a", "r", "r", "a", "y">>>>, Html(<<"p", "r", "i", "m", "i", "t", "i", "v", "e">>, <<"a", "r", "r", "a", "y">>))
    ELSE IF for_.tag = "RawPointer" THEN PathOk(<<<<"p", "o", "i", "n", "t", "e", "r">>>>, Html(<<"p", "r", "i", "m", "i", "t", "i", "v", "e">>, <<"p", "o", "i", "n", "t", "e", "r">>))
    ELSE IF for_.tag = "BorrowedRef" THEN PathOk(<<<<"r", "e", "f", "e", "r", "e", "n", "c", "e">>>>, Html(<<"p", "r", "i", "m", "i", "t", "i", "v", "e">>, <<"r", "e", "f", "e", "r", "e", "n", "c", "e">>))
    ELSE Panic

\* Index::path_and_link
Index_path_and_link(krate, krate_name_, item, impl_) ==
    LET Linked(r) == IF r.kind = "Ok" THEN PathOk(r.path, ReplaceLast(r.path, r.link)) ELSE r
        Own(p) == IF p.kind = "Ok" THEN PathOk(p.path, p.path) ELSE p
        Item(base) ==
            IF ~(item.inner.kind \in {"Function", "Method"}) THEN Panic
            ELSE IF base.kind # "Ok" THEN base
            ELSE IF item.inner.kind = "Function"
            THEN PathOk(base.path,
                        IF base.link = <<>> THEN base.link
                        ELSE ReplaceLast(base.link, Html(<<"f", "n">>, base.link[Len(base.link)])))
            ELSE IF ~IsSome(item.name) THEN Panic
            ELSE PathOk(Append(base.path, item.name.val),
                        IF base.link = <<>> THEN base.link
                        ELSE ReplaceLast(base.link,
                                         base.link[Len(base.link)]
                                           \o <<"#", "m", "e", "t", "h", "o", "d", ".">>
                                           \o item.name.val))
    IN Item(IF IsSome(impl_) THEN Linked(Receiver(krate, krate_name_, impl_.val))
            ELSE Own(get_path(krate, krate_name_, item.id)))

(***************************************************************************)
(* A candidate's own declaration as text, and the queries that differ from *)
(* a query by one `_`.  Both are request generators.                       *)
(***************************************************************************)
RECURSIVE PrintCandType(_)
RECURSIVE PrintCandList(_, _, _)

\* The elements of list from position k on in Rust's syntax, separated by ", ".
PrintCandList(kind, list, k) ==
    IF k > Len(list) THEN <<>>
    ELSE LET e == list[k]
             one == IF kind = "input" THEN e.name \o <<":", " ">> \o PrintCandType(e.ty)
                    ELSE IF kind = "generic_arg"
                    THEN IF e.kind = "Type" THEN PrintCandType(e.ty) ELSE <<"'", "a">>
                    ELSE PrintCandType(e)
         IN one \o (IF k < Len(list) THEN <<",", " ">> ELSE <<>>)
                \o PrintCandList(kind, list, k + 1)

\* A rustdoc type in Rust's syntax.
PrintCandType(t) ==
    CASE t.tag = "ResolvedPath" ->
            t.name \o (IF ~IsSome(t.args) THEN <<>>
                       ELSE IF t.args.val.kind = "AngleBracketed"
                       THEN IF t.args.val.args = <<>> THEN <<>>
                            ELSE <<"<">> \o PrintCandList("generic_arg", t.args.val.args, 1)
                                   \o <<">">>
                       ELSE <<"(", ")">>)
      [] t.tag = "Generic" -> t.name
      [] t.tag = "Primitive" -> PrimitiveChars(t.prim)
      [] t.tag = "Tuple" -> <<"(">> \o PrintCandList("type", t.elems, 1) \o <<")">>
      [] t.tag = "Slice" -> <<"[">> \o PrintCandType(t.elem) \o <<"]">>
      [] t.tag = "Array" -> <<"[">> \o PrintCandType(t.type_) \o <<";", " ", "3", "]">>
      [] t.tag = "Never" -> <<"!">>
      [] t.tag = "ImplTrait" -> <<"i", "m", "p", "l", " ", "T", "r">>
      [] t.tag = "RawPointer" ->
            (IF t.mutable THEN <<"*", "m", "u", "t", " ">>
             ELSE <<"*", "c", "o", "n", "s", "t", " ">>) \o PrintCandType(t.type_)
      [] t.tag = "BorrowedRef" ->
            (IF t.mutable THEN <<"&", "m", "u", "t", " ">> ELSE <<"&">>) \o PrintCandType(t.type_)

\* The declaration of a function or method item: fn name(a: T, ..) -> R
PrintItem(item) ==
    <<"f", "n", " ">> \o item.name.val
      \o <<"(">> \o PrintCandList("input", item.inner.decl.inputs, 1) \o <<")">>
      \o (IF IsSome(item.inner.decl.output)
          THEN <<" ", "-", ">", " ">> \o PrintCandType(item.inner.decl.output.val)
          ELSE <<>>)

RECURSIVE TypeWildcardings(_)
RECURSIVE ListWildcardings(_)

\* The lists of optional types that differ from list by one `_`: one present
\* element replaced, or one `_` put inside one present element.
ListWildcardings(list) ==
    UNION { IF IsSome(list[k])
            THEN {[list EXCEPT ![k] = None]}
                 \cup {[list EXCEPT ![k] = Some(u)] : u \in TypeWildcardings(list[k].val)}
            ELSE {} : k \in 1..Len(list) }

\* The query types that differ from t by one `_`, at a generic argument, a
\* tuple element or a slice element, at any depth.
TypeWildcardings(t) ==
    CASE t.tag = "UnresolvedPath" ->
            IF IsSome(t.args)
            THEN { Type_UnresolvedPath(t.name, Some(GenericArgs_AngleBracketed(l))) :
                     l \in ListWildcardings(t.args.val.args) }
            ELSE {}
      [] t.tag = "Tuple" -> { Type_Tuple(l) : l \in ListWildcardings(t.elems) }
      [] t.tag = "Slice" ->
            IF IsSome(t.elem)
            THEN {Type_Slice(None)} \cup {Type_Slice(Some(u)) : u \in TypeWildcardings(t.elem.val)}
            ELSE {}
      [] t.tag \in {"RawPointer", "BorrowedRef"} ->
            { [t EXCEPT !.type_ = u] : u \in TypeWildcardings(t.type_) }
      [] OTHER -> {}

\* The arguments that differ from arg by one `_`: the whole argument, its type,
\* or a place inside its type.
ArgumentWildcardings(arg) ==
    (IF IsSome(arg.ty) \/ IsSome(arg.name) THEN {Argument(None, None)} ELSE {})
    \cup (IF IsSome(arg.ty) /\ IsSome(arg.name) THEN {Argument(None, arg.name)} ELSE {})
    \cup (IF IsSome(arg.ty)
          THEN {Argument(Some(u), arg.name) : u \in TypeWildcardings(arg.ty.val)}
          ELSE {})

\* The queries that differ from q by one `_` in the argument list or in the
\* return type.
Wildcardings(q) ==
    IF ~IsSome(q.kind) THEN {}
    ELSE LET decl == q.kind.val.f.decl
             WithDecl(d) == Query(q.name, Some(QueryKind_FunctionQuery(Function(d))))
         IN (IF IsSome(decl.inputs)
             THEN LET list == decl.inputs.val.list IN
                  UNION { { WithDecl(FnDecl(Some([list |-> [list EXCEPT ![k] = a]]), decl.output)) :
                              a \in ArgumentWildcardings(list[k]) } : k \in 1..Len(list) }
             ELSE {})
            \cup (IF IsSome(decl.output) /\ decl.output.val.kind = "Return"
                  THEN { WithDecl(FnDecl(decl.inputs, Some(FnRetTy_Return(u)))) :
                           u \in TypeWildcardings(decl.output.val.ty) }
                  ELSE {})

(***************************************************************************)
(* One request against one candidate: the text is parsed (main.rs:51-54),  *)
(* the query is handed to Index::compare with the candidate, and the user  *)
(* may then resubmit the query with one subterm replaced by `_`.           *)
(***************************************************************************)
\* Texts parse_query rejects.
BadTexts == { <<>>, s_foo, <<"f", "n">> }

\* Texts that stop in the middle of a declaration or hold something that is
\* no type: `fn foo(`, `fn foo(u8`, `fn (?)`, `fn foo(u8) -> ?`.
UnfinishedTexts ==
    { <<"f", "n", " ", "f", "o", "o", "(">>,
      <<"f", "n", " ", "f", "o", "o", "(", "u", "8">>,
      <<"f", "n", " ", "(", "?", ")">>,
      <<"f", "n", " ", "f", "o", "o", "(", "u", "8", ")", " ", "-", ">", " ", "?">> }

\* Texts that end right after the `)` of the argument list, or with
\* whitespace after it: `fn ()`, `fn fo(..) `, `fn (u8)`, `fn (T)\n `, ...
EndOfListTexts ==
    { PrintQuery(Query(name, Some(QueryKind_FunctionQuery(Function(
                     FnDecl(inputs, Some(FnRetTy_DefaultReturn))))))) \o tail :
        name \in {None, Some(s_fo)},
        inputs \in {None} \cup { Some([list |-> args]) : args \in SeqsUpTo(SmallArguments, 1) },
        tail \in {<<>>, <<" ">>, <<"\n", " ">>} }

\* The index of the comparator's candidates: one crate that holds the aliases.
CatalogIndex == [crates |-> [n \in {"catalog"} |-> CatalogCrate]]

\* The requests of the specification SpecCompare: every text with every
\* candidate, and every candidate with its own declaration as the text.
CompareRequests ==
    { [text |-> t, cand |-> c] :
        t \in QueryTexts \cup BadTexts \cup UnfinishedTexts \cup EndOfListTexts,
        c \in Candidates }
    \cup { [text |-> PrintItem(c.item), cand |-> c] : c \in Candidates }

InitCompare ==
    /\ pc = "request"
    /\ \E r \in CompareRequests : text = r.text /\ cand = r.cand
    /\ query = None
    /\ out = None
    /\ prev = None
    /\ index = CatalogIndex
    /\ scope = Scope_Crate("catalog")
    /\ threshold = Rat(2, 5)
    /\ krates = <<>>
    /\ krate_name = "catalog"
    /\ pending = {}
    /\ assoc = <<>>
    /\ impl_id = ""
    /\ hits = <<>>
    /\ result = None
    /\ generics = Generics_default
    /\ substs = <<>>
    /\ response = None
    /\ unshaken = None

\* main.rs:51-54: parse_query(text).ok()?.1 - the unread rest of the text is
\* dropped, a parse error ends the request.
ParseRequest ==
    /\ pc = "request"
    /\ LET Parsed(r) == IF r.ok THEN query' = Some(r.val) /\ pc' = "parsed"
                        ELSE query' = None /\ pc' = "rejected"
       IN Parsed(parse_query(text))
    /\ UNCHANGED << text, cand, out, prev, index, scope, threshold, krates, krate_name,
                    pending, assoc, impl_id, hits, result, generics, substs, response, unshaken >>

\* Index::compare on the candidate.
CompareCandidate ==
    /\ pc = "parsed"
    /\ LET Compared_(r) == out' = Some(r) /\ generics' = r.ctx.generics /\ substs' = r.ctx.substs
       IN Compared_(Index_compare(query.val, cand.item, index.crates[krate_name], cand.impl_))
    /\ pc' = "compared"
    /\ UNCHANGED << text, query, cand, prev, index, scope, threshold, krates, krate_name,
                    pending, assoc, impl_id, hits, result, response, unshaken >>

\* The same request again with one subterm of the query replaced by `_`: text
\* is the text of the new query, which parse_query reads back as that query.
ReplaceWithWildcard ==
    /\ pc = "compared"
    /\ \E q2 \in Wildcardings(query.val) :
         /\ text' = PrintQuery(q2)
         /\ query' = Some(q2)
         /\ LET Compared_(r) ==
                    out' = Some(r) /\ generics' = r.ctx.generics /\ substs' = r.ctx.substs
            IN Compared_(Index_compare(q2, cand.item, index.crates[krate_name], cand.impl_))
    /\ prev' = out
    /\ pc' = "replaced"
    /\ UNCHANGED << cand, index, scope, threshold, krates, krate_name, pending, assoc,
                    impl_id, hits, result, response, unshaken >>

NextCompare == ParseRequest \/ CompareCandidate \/ ReplaceWithWildcard

SpecCompare == InitCompare /\ [][NextCompare]_vars

(***************************************************************************)
(* Properties of one comparison (specification SpecCompare).               *)
(***************************************************************************)
Compared == pc \in {"compared", "replaced"}

CountOf(atom, sims) == Cardinality({k \in 1..Len(sims) : sims[k] = atom})

ValidAtom(a) ==
    \/ a \in {Equivalent, Subequal, Different}
    \/ /\ a.kind = "Continuous"
       /\ RatLe(Rat(0, 1), a.x)
       /\ RatLe(a.x, Rat(1, 1))

RECURSIVE SubtypesOf(_)
\* The rustdoc types that occur in t, t included.
SubtypesOf(t) ==
    {t} \cup
    CASE t.tag = "ResolvedPath" ->
            IF IsSome(t.args) /\ t.args.val.kind = "AngleBracketed"
            THEN UNION { IF t.args.val.args[k].kind = "Type"
                         THEN SubtypesOf(t.args.val.args[k].ty) ELSE {} :
                         k \in 1..Len(t.args.val.args) }
            ELSE {}
      [] t.tag = "Tuple" -> UNION { SubtypesOf(t.elems[k]) : k \in 1..Len(t.elems) }
      [] t.tag = "Slice" -> SubtypesOf(t.elem)
      [] t.tag \in {"Array", "RawPointer", "BorrowedRef"} -> SubtypesOf(t.type_)
      [] OTHER -> {}

\* The rustdoc types that occur in the declaration of a candidate.
TypesOfCandidate(c) ==
    UNION { SubtypesOf(c.item.inner.decl.inputs[k].ty) :
              k \in 1..Len(c.item.inner.decl.inputs) }
    \cup (IF IsSome(c.item.inner.decl.output) THEN SubtypesOf(c.item.inner.decl.output.val)
          ELSE {})

HasGeneric(c) == \E t \in TypesOfCandidate(c) : t.tag = "Generic"

HasNever(c) == \E t \in TypesOfCandidate(c) : t.tag = "Never"

HasAlias(c) == \E t \in TypesOfCandidate(c) : IsTypedefPath(t, index.crates[krate_name])

\* The text of the request is the candidate's own declaration and parse_query
\* read all of it.
OwnDeclaration ==
    LET Whole(r) == r.ok /\ r.rest = <<>>
    IN text = PrintItem(cand.item) /\ Whole(parse_query(text))

\* C4 as stated: for every parse-able query and every candidate the comparison
\* returns a non-empty vector, and each atom is Equivalent, Subequal, Different
\* or Continuous(x) with 0 <= x <= 1.
C4_NonEmptyValidAtoms ==
    Compared => /\ out.val.sims # <<>>
                /\ \A k \in 1..Len(out.val.sims) : ValidAtom(out.val.sims[k])

\* C4 amended: each atom of the returned vector is Equivalent, Subequal,
\* Different or Continuous(x) with 0 <= x <= 1, and the vector is non-empty
\* whenever the query gives a name or an output.
C4_ValidAtomsNonEmptyIfNamedOrOutput ==
    Compared =>
        /\ \A k \in 1..Len(out.val.sims) : ValidAtom(out.val.sims[k])
        /\ (IsSome(query.val.name)
            \/ (IsSome(query.val.kind) /\ IsSome(query.val.kind.val.f.decl.output)))
           => out.val.sims # <<>>

\* A named query with an output was compared and gave a name distance strictly
\* between 0 and 1 next to discrete atoms.
C4_Witness ==
    /\ pc = "compared"
    /\ IsSome(query.val.name)
    /\ IsSome(query.val.kind) /\ IsSome(query.val.kind.val.f.decl.output)
    /\ \E k \in 1..Len(out.val.sims) :
         /\ out.val.sims[k].kind = "Continuous"
         /\ RatLt(Rat(0, 1), out.val.sims[k].x) /\ RatLt(out.val.sims[k].x, Rat(1, 1))
    /\ CountOf(Different, out.val.sims) > 0

C7_SubstitutionCoherence ==
    Compared => CountOf(Different, out.val.sims) >= out.val.ctx.misses

\* C7 amended: every comparison of a bound generic with a query type other than
\* its binding contributes a Different atom to the returned vector, unless it
\* was made inside an alternative of a type alias that the typedef rule
\* discarded.
C7_CoherenceOutsideDiscardedAlternatives ==
    Compared =>
        CountOf(Different, out.val.sims) >= out.val.ctx.misses - out.val.ctx.dropped

\* A generic bound at the first input met another query type at the second
\* one, outside any alias.
C7_Witness ==
    /\ pc = "compared"
    /\ out.val.ctx.misses > 0
    /\ out.val.ctx.dropped = 0
    /\ ~HasAlias(cand)
    /\ s_T \in DOMAIN out.val.ctx.substs

\* C8 as stated: replacing a subterm of the query with `_` never increases the
\* candidate's mean cost.
C8_WildcardNeutrality ==
    pc = "replaced"
        => ~RatLt(Similarities_score(prev.val.sims), Similarities_score(out.val.sims))

\* C8 amended: for a candidate without generic parameters and without type
\* aliases, replacing a subterm of the query with `_` never increases the total
\* cost of the similarity vector.
C8_WildcardNeverRaisesTotalCost ==
    (pc = "replaced" /\ ~HasGeneric(cand) /\ ~HasAlias(cand))
        => RatLe(SumScores(out.val.sims), SumScores(prev.val.sims))

\* A subterm that cost something became `_` and the total cost fell.
C8_Witness ==
    /\ pc = "replaced" /\ ~HasGeneric(cand) /\ ~HasAlias(cand)
    /\ RatLt(SumScores(out.val.sims), SumScores(prev.val.sims))
    /\ Len(out.val.sims) > 0

(***************************************************************************)
(* One type against itself, and against itself behind a reference          *)
(* (specification SpecType): impl Compare<types::Type> for Type.           *)
(***************************************************************************)
\* The rustdoc types of the specification SpecType.
\* Types that are one identifier: the generic parameters IO, T1 and K_V, the
\* paths HashMap and IOError.
IdentifierTypes ==
    { types_Generic(<<"I", "O">>), types_Generic(<<"T", "1">>), types_Generic(<<"K", "_", "V">>),
      types_ResolvedPath(<<"H", "a", "s", "h", "M", "a", "p">>, "map", None),
      types_ResolvedPath(<<"I", "O", "E", "r", "r", "o", "r">>, "ioerror", None) }

TypeCatalog ==
    SmallCandTypes \cup RichCandTypes \cup IdentifierTypes
    \cup { types_BorrowedRef(FALSE, c_i32), types_BorrowedRef(TRUE, c_T),
           types_BorrowedRef(FALSE, c_Al), types_RawPointer(FALSE, c_T),
           types_Slice(c_i32), types_Slice(c_Al), types_Tuple(<<c_u8>>),
           types_Tuple(<<c_i32, c_i32>>), c_Vec(<<types_GenericArg_Type(c_u8)>>),
           c_Vec(<<types_GenericArg_Type(c_Al)>>),
           c_Vec(<<types_GenericArg_Type(types_BorrowedRef(FALSE, c_i32))>>),
           types_Primitive("bool"), types_Primitive("str"), types_Primitive("usize") }

InitType ==
    /\ pc = "type_request"
    /\ \E c \in TypeCatalog : cand = [ty |-> c] /\ text = PrintCandType(c)
    /\ query = None
    /\ out = None
    /\ prev = None
    /\ index = CatalogIndex
    /\ scope = Scope_Crate("catalog")
    /\ threshold = Rat(2, 5)
    /\ krates = <<>>
    /\ krate_name = "catalog"
    /\ pending = {}
    /\ assoc = <<>>
    /\ impl_id = ""
    /\ hits = <<>>
    /\ result = None
    /\ generics = Generics_default
    /\ substs = <<>>
    /\ response = None
    /\ unshaken = None

\* parse_type on the text of the type; the type is the query's if all of the
\* text was read.
ParseTypeText ==
    /\ pc = "type_request"
    /\ LET Parsed(r) == IF r.ok /\ r.rest = <<>> THEN query' = Some(r.val) /\ pc' = "type_parsed"
                        ELSE query' = None /\ pc' = "rejected"
       IN Parsed(parse_type(text))
    /\ UNCHANGED << text, cand, out, prev, index, scope, threshold, krates, krate_name,
                    pending, assoc, impl_id, hits, result, generics, substs, response, unshaken >>

\* compare(t, t)
CompareBare ==
    /\ pc = "type_parsed"
    /\ LET Compared_(r) == prev' = Some(r) /\ generics' = r.ctx.generics /\ substs' = r.ctx.substs
       IN Compared_(Compare_Type(query.val, cand.ty, index.crates[krate_name],
                                 Ctx(Generics_default, <<>>)))
    /\ pc' = "bare"
    /\ UNCHANGED << text, query, cand, out, index, scope, threshold, krates, krate_name,
                    pending, assoc, impl_id, hits, result, response, unshaken >>

\* compare(t, &t)
CompareWithReferenceCandidate ==
    /\ pc = "bare"
    /\ LET Compared_(r) == out' = Some(r) /\ generics' = r.ctx.generics /\ substs' = r.ctx.substs
       IN Compared_(Compare_Type(query.val, types_BorrowedRef(FALSE, cand.ty),
                                 index.crates[krate_name], Ctx(Generics_default, <<>>)))
    /\ pc' = "ref_candidate"
    /\ UNCHANGED << text, query, cand, prev, index, scope, threshold, krates, krate_name,
                    pending, assoc, impl_id, hits, result, response, unshaken >>

\* compare(&t, t)
CompareWithReferenceQuery ==
    /\ pc = "bare"
    /\ LET Compared_(r) == out' = Some(r) /\ generics' = r.ctx.generics /\ substs' = r.ctx.substs
       IN Compared_(Compare_Type(Type_BorrowedRef(FALSE, query.val), cand.ty,
                                 index.crates[krate_name], Ctx(Generics_default, <<>>)))
    /\ pc' = "ref_query"
    /\ UNCHANGED << text, query, cand, prev, index, scope, threshold, krates, krate_name,
                    pending, assoc, impl_id, hits, result, response, unshaken >>

NextType ==
    ParseTypeText \/ CompareBare \/ CompareWithReferenceCandidate \/ CompareWithReferenceQuery

SpecType == InitType /\ [][NextType]_vars

\* The atoms of more are those of less and one Subequal besides.
PlusOneSubequal(more, less) ==
    \A a \in {more[k] : k \in 1..Len(more)} \cup {less[k] : k \in 1..Len(less)} \cup {Subequal} :
        CountOf(a, more) = CountOf(a, less) + (IF a = Subequal THEN 1 ELSE 0)

\* C9 as stated: for any type t, compare(t, &t) and compare(&t, t) each yield
\* the atoms of compare(t, t) and exactly one Subequal besides.
C9_ReferenceTolerance ==
    pc \in {"ref_candidate", "ref_query"} => PlusOneSubequal(out.val.sims, prev.val.sims)

RECURSIVE SharedChain(_)
\* The references t starts with, if any, are all shared ones.
SharedChain(t) == t.tag = "BorrowedRef" => (~t.mutable /\ SharedChain(t.type_))

RECURSIVE UnderReferences(_)
\* The type under the references t starts with.
UnderReferences(t) == IF t.tag = "BorrowedRef" THEN UnderReferences(t.type_) ELSE t

\* C9 amended: for any type t whose leading references, if any, are all shared
\* ones, compare(t, &t) yields the atoms of compare(t, t) and exactly one
\* Subequal besides; compare(&t, t) does so when, in addition, the type under
\* those leading references is neither a generic parameter nor a raw pointer.
C9_ReferenceToleranceSharedChains ==
    /\ (pc = "ref_candidate" /\ SharedChain(cand.ty))
          => PlusOneSubequal(out.val.sims, prev.val.sims)
    /\ (pc = "ref_query" /\ SharedChain(cand.ty)
          /\ ~(UnderReferences(cand.ty).tag \in {"Generic", "RawPointer"}))
          => PlusOneSubequal(out.val.sims, prev.val.sims)

\* A shared reference to an alias was compared with itself behind one more
\* reference on the query's side.
C9_Witness ==
    /\ pc = "ref_query"
    /\ cand.ty.tag = "BorrowedRef" /\ SharedChain(cand.ty)
    /\ IsTypedefPath(UnderReferences(cand.ty), index.crates[krate_name])
    /\ CountOf(Subequal, out.val.sims) = 1

(***************************************************************************)
(* Index::search (specification Spec): a request is parsed and searched in *)
(* the crates of its scope.  krate.index is a HashMap: values() may yield  *)
(* the items in any order, so every visit picks any item not yet visited.  *)
(***************************************************************************)
s_bar == <<"b", "a", "r">>

s_Tr == <<"T", "r">>

\* impl<T> Vec<T> { fn foo(a: Self, a: T); const C; }
CorpusVecImpl == ItemEnum_Impl(Generics_default, None, c_VecT, <<"m1", "k1">>)

\* impl<T> Tr for Vec<T> { fn foo(a: T) }
CorpusTraitImpl ==
    ItemEnum_Impl(Generics_default, Some(types_ResolvedPath(s_Tr, "tr", None)), c_VecT, <<"m2">>)

\* Crate a: fn foo(a: T) -> T, an inherent impl with a method and a constant,
\* a trait impl with a method.
CrateA ==
    types_Crate(
        [id \in {"f1", "i1", "m1", "k1", "i2", "m2"} |->
            CASE id = "f1" ->
                    types_Item(id, Some(s_foo), None,
                               ItemEnum_Function(types_FnDecl(NamedInputs(<<c_T>>), Some(c_T)),
                                                 Generics_default))
              [] id = "i1" -> types_Item(id, None, None, CorpusVecImpl)
              [] id = "m1" ->
                    types_Item(id, Some(s_foo), None,
                               ItemEnum_Method(types_FnDecl(NamedInputs(<<c_Self, c_T>>), None),
                                               Generics_default))
              [] id = "k1" -> types_Item(id, Some(<<"C">>), None, ItemEnum_Other("AssocConst"))
              [] id = "i2" -> types_Item(id, None, None, CorpusTraitImpl)
              [] id = "m2" ->
                    types_Item(id, Some(s_foo), None,
                               ItemEnum_Method(types_FnDecl(NamedInputs(<<c_T>>), None),
                                               Generics_default))],
        [id \in {"f1", "vec", "tr"} |->
            CASE id = "f1" -> ItemSummary(<<s_a, s_foo>>, "Function")
              [] id = "vec" -> ItemSummary(<<s_a, s_Vec>>, "Struct")
              [] id = "tr" -> ItemSummary(<<s_a, s_Tr>>, "Trait")])

\* Crate b: fn foo(a: u8), fn bar(a: T, a: T) -> i32, a struct.
CrateB ==
    types_Crate(
        [id \in {"f2", "f3", "s1"} |->
            CASE id = "f2" ->
                    types_Item(id, Some(s_foo), Some(<<"d">>),
                               ItemEnum_Function(types_FnDecl(NamedInputs(<<c_u8>>), None),
                                                 Generics_default))
              [] id = "f3" ->
                    types_Item(id, Some(s_bar), None,
                               ItemEnum_Function(types_FnDecl(NamedInputs(<<c_T, c_T>>),
                                                              Some(c_i32)),
                                                 Generics_default))
              [] id = "s1" -> types_Item(id, Some(s_Vec), None, ItemEnum_Other("Struct"))],
        [id \in {"f2", "f3", "s1"} |->
            CASE id = "f2" -> ItemSummary(<<<<"b">>, s_foo>>, "Function")
              [] id = "f3" -> ItemSummary(<<<<"b">>, s_bar>>, "Function")
              [] id = "s1" -> ItemSummary(<<<<"b">>, s_Vec>>, "Struct")])

\* Crate c: an inherent impl that lists an id the index does not hold.
CrateC ==
    types_Crate(
        [id \in {"i3"} |->
            types_Item(id, None, None, ItemEnum_Impl(Generics_default, None, c_i32, <<"gone">>))],
        <<>>)

\* Crate d: a function that paths does not list.
CrateD ==
    types_Crate(
        [id \in {"f4"} |->
            types_Item(id, Some(s_foo), None,
                       ItemEnum_Function(types_FnDecl(<<>>, None), Generics_default))],
        <<>>)

\* The Index of the searches.
CorpusIndex ==
    [crates |-> [n \in {"a", "b", "c", "d"} |->
                    CASE n = "a" -> CrateA [] n = "b" -> CrateB [] n = "c" -> CrateC
                      [] n = "d" -> CrateD]]

\* The crate names a scope may hold; the index has no crate z.
ScopeNames == {"a", "b", "c", "d", "z"}

Scopes ==
    { Scope_Crate(n) : n \in ScopeNames }
    \cup { Scope_Set(ns) : ns \in SeqsUpTo(ScopeNames, MaxScopeLen) }

\* 0.4 is the threshold of main.rs:61.
Thresholds == { Rat(2, 5), Rat(1, 1), Rat(2, 1), NaN }

SearchTexts ==
    { <<"f", "n", " ">>,
      <<"f", "n", " ", "f", "o", "o">>,
      <<"f", "n", " ", "b", "a", "z">>,
      <<"f", "n", " ", "(", "u", "8", ",", " ", "i", "3", "2", ")">>,
      <<"f", "n", " ", "f", "o", "o", "(", "_", ",", " ", "i", "3", "2", ")", ";">>,
      s_foo }

Ok(list) == [kind |-> "Ok", hits |-> list]

Err(e) == [kind |-> "Err", error |-> e]

\* impl PartialOrd for Hit, through impl PartialOrd for Similarities: by score.
Hit_score(hit) == Similarities_score(hit.similarities)

InsertAt(list, k, x) == SubSeq(list, 1, k) \o <<x>> \o SubSeq(list, k + 1, Len(list))

\* The ways to put x into the sorted list and leave it sorted.
SortedInserts(list, x) ==
    { InsertAt(list, k, x) :
        k \in { j \in 0..Len(list) :
                  /\ (j >= 1 => RatLe(Hit_score(list[j]), Hit_score(x)))
                  /\ (j < Len(list) => RatLe(Hit_score(x), Hit_score(list[j + 1]))) } }

\* The orders opposite to the code's: a mutant that C2_SortedByScore refutes.
RECURSIVE SortedDescending(_)
SortedDescending(list) ==
    IF list = <<>> THEN {<<>>}
    ELSE { <<x>> \o rest :
             x \in { list[k] : k \in { j \in 1..Len(list) :
                       \A i \in 1..Len(list) : RatLe(Hit_score(list[i]), Hit_score(list[j])) } },
             rest \in SortedDescending(
                        LET k == CHOOSE j \in 1..Len(list) :
                                   \A i \in 1..Len(list) :
                                      RatLe(Hit_score(list[i]), Hit_score(list[j]))
                        IN SubSeq(list, 1, k - 1) \o SubSeq(list, k + 1, Len(list))) }

\* A sort that keeps one hit of every score: a mutant that
\* C3_SameHitsSameScoresAnyTieOrder refutes.
RECURSIVE SortedWithoutTies(_)
SortedWithoutTies(list) ==
    IF list = <<>> THEN {<<>>}
    ELSE UNION { IF \E k \in 1..Len(l) : Hit_score(l[k]) = Hit_score(Head(list)) THEN {l}
                 ELSE SortedInserts(l, Head(list)) : l \in SortedWithoutTies(Tail(list)) }

\* hits.sort_unstable_by(|a, b| a.partial_cmp(b).unwrap()) (search.rs:136): the
\* sort may reorder equal elements, so it may leave the hits in any order that
\* is sorted by score.
RECURSIVE sort_unstable_by(_)
sort_unstable_by(list) ==
    IF list = <<>> THEN {<<>>}
    ELSE UNION { SortedInserts(l, Head(list)) : l \in sort_unstable_by(Tail(list)) }

\* `sims.score() < threshold` with `<=`: a mutant that C1_AdmittedIffBelowThreshold
\* refutes.
Admits_inclusive(sims, threshold_) ==
    RatLe(Similarities_score(sims), threshold_)

\* if sims.score() < threshold (search.rs:88, 117)
Admits(sims, threshold_) == RatLt(Similarities_score(sims), threshold_)

Init ==
    /\ pc = "request"
    /\ text \in SearchTexts
    /\ scope \in Scopes
    /\ threshold \in Thresholds
    /\ index = CorpusIndex
    /\ query = None
    /\ cand = None
    /\ out = None
    /\ prev = None
    /\ krates = <<>>
    /\ krate_name = ""
    /\ pending = {}
    /\ assoc = <<>>
    /\ impl_id = ""
    /\ hits = <<>>
    /\ result = None
    /\ generics = Generics_default
    /\ substs = <<>>
    /\ response = None
    /\ unshaken = None

\* let mut hits = vec![]; let krates = scope.flatten(); (search.rs:74-76)
BeginSearch ==
    /\ pc = "parsed"
    /\ hits' = <<>>
    /\ krates' = Scope_flatten(scope)
    /\ pc' = "crates"
    /\ UNCHANGED << text, query, cand, out, prev, index, scope, threshold, krate_name, pending,
                    assoc, impl_id, result, generics, substs, response, unshaken >>

\* EnterCrate that passes over a crate the index does not hold: a mutant that
\* C11_CrateNotFoundUnlessEarlierFailure refutes.
EnterCrate_skipping ==
    /\ pc = "crates"
    /\ krates # <<>>
    /\ krate_name' = Head(krates)
    /\ krates' = Tail(krates)
    /\ IF Head(krates) \in DOMAIN index.crates
       THEN pending' = DOMAIN index.crates[Head(krates)].index /\ pc' = "items"
       ELSE pending' = {} /\ pc' = "crates"
    /\ UNCHANGED << text, query, cand, out, prev, index, scope, threshold, assoc, impl_id, hits,
                    result, generics, substs, response, unshaken >>

\* for krate_name in krates: self.crates.get(&krate_name) or CrateNotFound
\* (search.rs:77-82).
EnterCrate ==
    /\ pc = "crates"
    /\ krates # <<>>
    /\ krate_name' = Head(krates)
    /\ krates' = Tail(krates)
    /\ IF Head(krates) \in DOMAIN index.crates
       THEN /\ pending' = DOMAIN index.crates[Head(krates)].index
            /\ pc' = "items"
            /\ UNCHANGED result
       ELSE /\ result' = Some(Err(SearchError_CrateNotFound(Head(krates))))
            /\ pc' = "done"
            /\ UNCHANGED pending
    /\ UNCHANGED << text, query, cand, out, prev, index, scope, threshold, assoc, impl_id, hits,
                    generics, substs, response, unshaken >>

\* VisitCandidate that passes over a candidate whose path cannot be built,
\* as if the `?` after path_and_link were a `continue`: a mutant that
\* C13_FirstFailureIsFatal refutes.
VisitCandidate_dropping(item, impl_, cont) ==
    LET Visited(pl, r) ==
            IF pl.kind # "Ok"
            THEN /\ pc' = cont
                 /\ UNCHANGED << cand, out, prev, hits, result, generics, substs >>
            ELSE /\ cand' = Candidate(item, impl_)
                 /\ prev' = out
                 /\ out' = Some(r)
                 /\ generics' = r.ctx.generics
                 /\ substs' = r.ctx.substs
                 /\ IF r.ctx.panicked \/ (Admits(r.sims, threshold) /\ ~IsSome(item.name))
                    THEN result' = Some(Panic) /\ pc' = "done" /\ UNCHANGED hits
                    ELSE /\ hits' = IF Admits(r.sims, threshold)
                                    THEN Append(hits, Hit(item.name.val, pl.path, pl.link,
                                                          item.docs, r.sims))
                                    ELSE hits
                         /\ pc' = cont
                         /\ UNCHANGED result
    IN Visited(Index_path_and_link(index.crates[krate_name], krate_name, item, impl_),
               Index_compare(query.val, item, index.crates[krate_name], impl_))

\* One candidate (search.rs:85-96, 110-126): path_and_link, Index::compare, and
\* the push of the hit if the score is below the threshold.  cont is where the
\* loop goes on.  cand, prev and out record the comparison; generics and substs
\* are the two locals of Index::compare as the call left them.
VisitCandidate(item, impl_, cont) ==
    LET Visited(pl, r) ==
            IF pl.kind # "Ok"
            THEN /\ result' = Some(IF pl.kind = "Panic" THEN Panic ELSE Err(pl))
                 /\ pc' = "done"
                 /\ UNCHANGED << cand, out, prev, hits, generics, substs >>
            ELSE /\ cand' = Candidate(item, impl_)
                 /\ prev' = out
                 /\ out' = Some(r)
                 /\ generics' = r.ctx.generics
                 /\ substs' = r.ctx.substs
                 /\ IF r.ctx.panicked \/ (Admits(r.sims, threshold) /\ ~IsSome(item.name))
                    THEN result' = Some(Panic) /\ pc' = "done" /\ UNCHANGED hits
                    ELSE /\ hits' = IF Admits(r.sims, threshold)
                                    THEN Append(hits, Hit(item.name.val, pl.path, pl.link,
                                                          item.docs, r.sims))
                                    ELSE hits
                         /\ pc' = cont
                         /\ UNCHANGED result
    IN Visited(Index_path_and_link(index.crates[krate_name], krate_name, item, impl_),
               Index_compare(query.val, item, index.crates[krate_name], impl_))

\* for item in krate.index.values(): a Function item (search.rs:84-97).
VisitFunction ==
    /\ pc = "items"
    /\ \E id \in pending :
         /\ index.crates[krate_name].index[id].inner.kind = "Function"
         /\ pending' = pending \ {id}
         /\ VisitCandidate(index.crates[krate_name].index[id], None, "items")
    /\ UNCHANGED << text, query, index, scope, threshold, krates, krate_name, assoc, impl_id,
                    response, unshaken >>

\* The first id of the impl that the index does not hold, if any (search.rs:99-107).
FirstMissing(items, krate) ==
    LET ks == {k \in 1..Len(items) : ~(items[k] \in DOMAIN krate.index)}
    IN IF ks = {} THEN None ELSE Some([id |-> items[CHOOSE k \in ks : \A j \in ks : k <= j]])

\* EnterImpl without the guard `if impl_.trait_.is_none()`: a mutant that
\* C12_OnlyFunctionsAndInherentMethods refutes.
EnterImpl_any_impl ==
    /\ pc = "items"
    /\ \E id \in pending :
         LET krate == index.crates[krate_name]
             impl_ == krate.index[id].inner
         IN /\ impl_.kind = "Impl"
            /\ pending' = pending \ {id}
            /\ IF IsSome(FirstMissing(impl_.items, krate))
               THEN /\ result' = Some(Err(SearchError_ItemNotFound(
                                            FirstMissing(impl_.items, krate).val.id, krate_name)))
                    /\ pc' = "done"
                    /\ UNCHANGED << assoc, impl_id >>
               ELSE /\ assoc' = impl_.items
                    /\ impl_id' = id
                    /\ pc' = IF impl_.items = <<>> THEN "items" ELSE "assoc"
                    /\ UNCHANGED result
    /\ UNCHANGED << text, query, cand, out, prev, index, scope, threshold, krates, krate_name,
                    hits, generics, substs, response, unshaken >>

\* for item in krate.index.values(): an inherent impl; its items are looked up
\* (search.rs:98-107).
EnterImpl ==
    /\ pc = "items"
    /\ \E id \in pending :
         LET krate == index.crates[krate_name]
             impl_ == krate.index[id].inner
         IN /\ impl_.kind = "Impl"
            /\ ~IsSome(impl_.trait_)
            /\ pending' = pending \ {id}
            /\ IF IsSome(FirstMissing(impl_.items, krate))
               THEN /\ result' = Some(Err(SearchError_ItemNotFound(
                                            FirstMissing(impl_.items, krate).val.id, krate_name)))
                    /\ pc' = "done"
                    /\ UNCHANGED << assoc, impl_id >>
               ELSE /\ assoc' = impl_.items
                    /\ impl_id' = id
                    /\ pc' = IF impl_.items = <<>> THEN "items" ELSE "assoc"
                    /\ UNCHANGED result
    /\ UNCHANGED << text, query, cand, out, prev, index, scope, threshold, krates, krate_name,
                    hits, generics, substs, response, unshaken >>

\* for assoc_item in assoc_items: a Method is a candidate, anything else is
\* passed over (search.rs:108-127).
VisitAssocItem ==
    /\ pc = "assoc"
    /\ LET krate == index.crates[krate_name]
           item == krate.index[Head(assoc)]
           cont == IF Tail(assoc) = <<>> THEN "items" ELSE "assoc"
       IN IF item.inner.kind = "Method"
          THEN VisitCandidate(item, Some(krate.index[impl_id].inner), cont)
          ELSE pc' = cont /\ UNCHANGED << cand, out, prev, hits, result, generics, substs >>
    /\ assoc' = Tail(assoc)
    /\ UNCHANGED << text, query, index, scope, threshold, krates, krate_name, pending, impl_id,
                    response, unshaken >>

\* for item in krate.index.values(): `_ => {}` - a trait impl, a method in its
\* own right, any other item (search.rs:128-130).
SkipItem ==
    /\ pc = "items"
    /\ \E id \in pending :
         LET inner == index.crates[krate_name].index[id].inner IN
         /\ inner.kind # "Function"
         /\ (inner.kind = "Impl" => IsSome(inner.trait_))
         /\ pending' = pending \ {id}
    /\ UNCHANGED << pc, text, query, cand, out, prev, index, scope, threshold, krates,
                    krate_name, assoc, impl_id, hits, result, generics, substs, response, unshaken >>

\* krate.index.values() is exhausted: on to the next crate.
LeaveCrate ==
    /\ pc = "items"
    /\ pending = {}
    /\ pc' = "crates"
    /\ UNCHANGED << text, query, cand, out, prev, index, scope, threshold, krates, krate_name,
                    pending, assoc, impl_id, hits, result, generics, substs, response, unshaken >>

\* hits.sort_unstable_by(..); Ok(hits) (search.rs:136-137).  partial_cmp is None
\* for a NaN score and the unwrap panics.  hits keeps the vector as it was
\* before the sort.
Finish ==
    /\ pc = "crates"
    /\ krates = <<>>
    /\ IF Len(hits) >= 2 /\ \E k \in 1..Len(hits) : IsNaN(Hit_score(hits[k]))
       THEN result' = Some(Panic)
       ELSE \E sorted \in sort_unstable_by(hits) : result' = Some(Ok(sorted))
    /\ pc' = "done"
    /\ UNCHANGED << text, query, cand, out, prev, index, scope, threshold, krates, krate_name,
                    pending, assoc, impl_id, hits, generics, substs, response, unshaken >>

\* main.rs:67: the hits the reply keeps.
ResponseLimit == 30

\* Iterator::take with one element too many: a variant that
\* C20_ReplyIsFirstThirtyHits tells apart from the code.
Take_one_more(list, n) == SubSeq(list, 1, Min2(n + 1, Len(list)))

\* Iterator::take(n) followed by collect: the first n elements, or all of them.
Take(list, n) == SubSeq(list, 1, Min2(n, Len(list)))

\* The end of the /search handler (main.rs:56-72): an error of Index::search
\* is the reply (`?`), otherwise the reply is the first 30 hits.
Respond ==
    /\ pc = "done"
    /\ response' = IF result.val.kind = "Ok"
                   THEN Some(Ok(Take(result.val.hits, ResponseLimit)))
                   ELSE result
    /\ pc' = "responded"
    /\ UNCHANGED << text, query, cand, out, prev, index, scope, threshold, krates, krate_name,
                    pending, assoc, impl_id, hits, result, generics, substs, unshaken >>

Next ==
    \/ ParseRequest
    \/ BeginSearch
    \/ EnterCrate
    \/ VisitFunction
    \/ EnterImpl
    \/ VisitAssocItem
    \/ SkipItem
    \/ LeaveCrate
    \/ Finish
    \/ Respond

Spec == Init /\ [][Next]_vars

(***************************************************************************)
(* Properties of Index::search (specification Spec).                       *)
(***************************************************************************)
Returned == pc = "done" /\ IsSome(result) /\ result.val.kind = "Ok"

\* The candidates of a crate, one key for each time the loops of the search
\* reach one: <<id, 0>> for a Function item, <<id, k>> for the k-th item of an
\* inherent impl if it is a Method.
CandidateKeys(krate) ==
    { <<id, 0>> : id \in { i \in DOMAIN krate.index : krate.index[i].inner.kind = "Function" } }
    \cup UNION { { <<id, k>> : k \in { j \in 1..Len(krate.index[id].inner.items) :
                                         /\ krate.index[id].inner.items[j] \in DOMAIN krate.index
                                         /\ krate.index[krate.index[id].inner.items[j]].inner.kind
                                              = "Method" } } :
                 id \in { i \in DOMAIN krate.index :
                            /\ krate.index[i].inner.kind = "Impl"
                            /\ ~IsSome(krate.index[i].inner.trait_) } }

KeyCandidate(krate, key) ==
    IF key[2] = 0 THEN Candidate(krate.index[key[1]], None)
    ELSE Candidate(krate.index[krate.index[key[1]].inner.items[key[2]]],
                   Some(krate.index[key[1]].inner))

\* The candidates of the crates in scope: <<n, key>> for the n-th crate name
\* of the flattened scope.
Occurrences ==
    UNION { { <<n, key>> : key \in CandidateKeys(index.crates[Scope_flatten(scope)[n]]) } :
            n \in { m \in 1..Len(Scope_flatten(scope)) :
                       Scope_flatten(scope)[m] \in DOMAIN index.crates } }

\* The context Index::compare starts a candidate from: the generics of the
\* enclosing impl plus Self = impl.for_, and no substitution.
FreshCtx(impl_) ==
    Ctx(IF IsSome(impl_)
        THEN types_Generics(impl_.val.generics.params,
                            Append(impl_.val.generics.where_predicates,
                                   types_EqPredicate(types_Generic(s_Self), impl_.val.for_)))
        ELSE Generics_default,
        <<>>)

\* The similarity vector of an occurrence, computed on its own.
OccurrenceSims(o) ==
    LET krate == index.crates[Scope_flatten(scope)[o[1]]]
        c == KeyCandidate(krate, o[2])
    IN Compare_Query(query.val, c.item, krate, FreshCtx(c.impl_)).sims

\* The hit of an occurrence.
OccurrenceHit(o) ==
    LET name == Scope_flatten(scope)[o[1]]
        krate == index.crates[name]
        c == KeyCandidate(krate, o[2])
        pl == Index_path_and_link(krate, name, c.item, c.impl_)
    IN Hit(c.item.name.val, pl.path, pl.link, c.item.docs, OccurrenceSims(o))

\* sum / len of the costs, as a rational: 0/0 for the empty vector.
MeanCost(sims) == RatDivInt(SumScores(sims), Len(sims))

Below(o) == RatLt(MeanCost(OccurrenceSims(o)), threshold)

Occurs(hit, list) == Cardinality({ k \in 1..Len(list) : list[k] = hit })

\* C1: when Index::search returns a hit list, a candidate of a crate in scope
\* (a Function item, or a Method listed by an inherent impl) is in the list if
\* and only if the mean cost of its similarity vector is strictly less than
\* the threshold: every hit of the list is the hit of such a candidate, and
\* the hit of such a candidate is in the list as many times as candidates
\* below the threshold have it.  A candidate whose mean cost equals the
\* threshold is not counted.
C1_AdmittedIffBelowThreshold ==
    Returned =>
        /\ \A k \in 1..Len(result.val.hits) :
              \E o \in Occurrences : Below(o) /\ OccurrenceHit(o) = result.val.hits[k]
        /\ \A o \in Occurrences :
              Below(o) =>
                 Occurs(OccurrenceHit(o), result.val.hits)
                   = Cardinality({ p \in Occurrences : Below(p) /\ OccurrenceHit(p) = OccurrenceHit(o) })

\* A search has returned hits and has left out a candidate whose mean cost is
\* equal to the threshold.
C1_Witness ==
    /\ Returned
    /\ result.val.hits # <<>>
    /\ \E o \in Occurrences :
          /\ RatLe(MeanCost(OccurrenceSims(o)), threshold)
          /\ RatLe(threshold, MeanCost(OccurrenceSims(o)))
          /\ \A k \in 1..Len(result.val.hits) :
                result.val.hits[k].similarities # OccurrenceSims(o)

\* C2: the hit list Index::search returns is in non-decreasing order of score:
\* of two adjacent hits the earlier one's mean cost is less than or equal to
\* the later one's.
C2_SortedByScore ==
    Returned =>
        \A k \in 1..(Len(result.val.hits) - 1) :
           RatLe(MeanCost(result.val.hits[k].similarities),
                 MeanCost(result.val.hits[k + 1].similarities))

\* A search has returned hits of three different scores, and the loops had
\* found a later one of them before an earlier one.
C2_Witness ==
    /\ Returned
    /\ \E i, j, k \in 1..Len(result.val.hits) :
          /\ RatLt(MeanCost(result.val.hits[i].similarities),
                   MeanCost(result.val.hits[j].similarities))
          /\ RatLt(MeanCost(result.val.hits[j].similarities),
                   MeanCost(result.val.hits[k].similarities))
    /\ \E i, j \in 1..Len(hits) :
          i < j /\ RatLt(MeanCost(hits[j].similarities), MeanCost(hits[i].similarities))

\* The stable sort of the hits by score: hits of equal score stay in the order
\* the loops of the search pushed them.
RECURSIVE StableSort(_)
StableSort(list) ==
    IF list = <<>> THEN <<>>
    ELSE LET sorted == StableSort(SubSeq(list, 1, Len(list) - 1))
             x == list[Len(list)]
             before == { k \in 1..Len(sorted) : RatLe(MeanCost(sorted[k].similarities),
                                                      MeanCost(x.similarities)) }
         IN InsertAt(sorted, Cardinality(before), x)

C5_EmptyVectorNeverAdmitted ==
    /\ \A k \in 1..Len(hits) : hits[k].similarities # <<>>
    /\ (IsSome(result) /\ result.val.kind = "Ok") =>
          \A k \in 1..Len(result.val.hits) : result.val.hits[k].similarities # <<>>

\* A search with a threshold above every cost has compared a candidate, got
\* the empty vector, and returned.
C5_Witness ==
    /\ Returned
    /\ IsSome(out)
    /\ out.val.sims = <<>>
    /\ RatLt(Rat(1, 1), threshold)

\* The crate that holds an item.
CrateOf(item) == CHOOSE n \in DOMAIN index.crates : item.id \in DOMAIN index.crates[n].index

\* C10: the similarity vector the search has computed for a candidate is the
\* one the comparison gives from an empty substitution table and the generics
\* of its enclosing impl plus Self = impl.for_, whatever was compared before.
C10_NoCrossCandidateInterference ==
    IsSome(out) =>
        out.val.sims
          = Compare_Query(query.val, cand.item, index.crates[CrateOf(cand.item)],
                          FreshCtx(cand.impl_)).sims

\* Two candidates have been compared one after the other, each candidate has
\* left bindings in its substitution table, and the two tables differ.
C10_Witness ==
    /\ IsSome(prev)
    /\ IsSome(out)
    /\ prev.val.ctx.substs # <<>>
    /\ out.val.ctx.substs # <<>>
    /\ prev.val.ctx.substs # out.val.ctx.substs

\* The positions of the flattened scope that name a crate the index does not hold.
MissingAt == { n \in 1..Len(Scope_flatten(scope)) : Scope_flatten(scope)[n] \notin DOMAIN index.crates }

FirstMissingAt == CHOOSE n \in MissingAt : \A m \in MissingAt : n <= m

\* The crate names listed before the first one the index does not hold.
ListedBefore == { Scope_flatten(scope)[n] : n \in 1..(FirstMissingAt - 1) }

\* A crate whose visit ends without an error: its inherent impls list ids of
\* the index only, and every candidate has a path and a link.
VisitSucceeds(name) ==
    LET krate == index.crates[name] IN
    /\ \A id \in DOMAIN krate.index :
          (krate.index[id].inner.kind = "Impl" /\ ~IsSome(krate.index[id].inner.trait_))
             => ~IsSome(FirstMissing(krate.index[id].inner.items, krate))
    /\ \A key \in CandidateKeys(krate) :
          Index_path_and_link(krate, name, KeyCandidate(krate, key).item,
                              KeyCandidate(krate, key).impl_).kind = "Ok"

\* C11 as the specification has it: a scope that names a crate the index does
\* not hold makes the search return CrateNotFound with that name.
C11_CrateNotFoundForMissingCrate ==
    (pc = "done" /\ MissingAt # {}) =>
        \E n \in MissingAt : result.val = Err(SearchError_CrateNotFound(Scope_flatten(scope)[n]))

\* C11: a search whose scope names a crate the index does not hold returns no
\* hits; it returns CrateNotFound with the first such name, even when crates
\* listed before it gave hits, unless the visit of a crate listed before it
\* has already ended the search with its own error, which is then the error
\* returned.
C11_CrateNotFoundUnlessEarlierFailure ==
    (pc = "done" /\ MissingAt # {}) =>
        /\ result.val.kind = "Err"
        /\ \/ result.val = Err(SearchError_CrateNotFound(Scope_flatten(scope)[FirstMissingAt]))
           \/ /\ result.val.error.kind = "ItemNotFound"
              /\ result.val.error.krate \in ListedBefore
              /\ ~VisitSucceeds(result.val.error.krate)
        /\ (\A name \in ListedBefore : VisitSucceeds(name))
              => result.val = Err(SearchError_CrateNotFound(Scope_flatten(scope)[FirstMissingAt]))

\* A search over a set has found hits in the first crate and has returned
\* CrateNotFound for the second.
C11_Witness ==
    /\ pc = "done"
    /\ scope.kind = "Set"
    /\ MissingAt # {}
    /\ FirstMissingAt = 2
    /\ hits # <<>>
    /\ result.val = Err(SearchError_CrateNotFound(Scope_flatten(scope)[2]))

\* The hit was built for a candidate of the scope: a Function item, or a
\* Method that an inherent impl lists.
HitOfCandidate(hit) ==
    \E o \in Occurrences :
       /\ LET name == Scope_flatten(scope)[o[1]]
              c == KeyCandidate(index.crates[name], o[2])
          IN Index_path_and_link(index.crates[name], name, c.item, c.impl_).kind = "Ok"
       /\ hit.name = OccurrenceHit(o).name
       /\ hit.path = OccurrenceHit(o).path
       /\ hit.link = OccurrenceHit(o).link
       /\ hit.docs = OccurrenceHit(o).docs

\* The pairs (trait impl, Method it lists) of a crate.
TraitMethodKeys(krate) ==
    UNION { { <<id, k>> : k \in { j \in 1..Len(krate.index[id].inner.items) :
                                    /\ krate.index[id].inner.items[j] \in DOMAIN krate.index
                                    /\ krate.index[krate.index[id].inner.items[j]].inner.kind
                                         = "Method" } } :
            id \in { i \in DOMAIN krate.index :
                       /\ krate.index[i].inner.kind = "Impl"
                       /\ IsSome(krate.index[i].inner.trait_) } }

\* C12: the candidate the search compares is a Function item on its own or a
\* Method together with an inherent impl (trait_ is None) that lists it, and
\* every hit found or returned has the name, path, link and docs of such a
\* candidate of a crate in scope; no hit has the path of a method of a trait
\* impl.
C12_OnlyFunctionsAndInherentMethods ==
    /\ (pc \in {"items", "assoc", "crates", "done"} /\ IsSome(out)) =>
          \/ cand.item.inner.kind = "Function" /\ ~IsSome(cand.impl_)
          \/ /\ cand.item.inner.kind = "Method"
             /\ IsSome(cand.impl_)
             /\ ~IsSome(cand.impl_.val.trait_)
             /\ \E k \in 1..Len(cand.impl_.val.items) : cand.impl_.val.items[k] = cand.item.id
    /\ \A k \in 1..Len(hits) : HitOfCandidate(hits[k])
    /\ Returned =>
          \A k \in 1..Len(result.val.hits) :
             /\ HitOfCandidate(result.val.hits[k])
             /\ \A n \in 1..Len(Scope_flatten(scope)) :
                   \A key \in TraitMethodKeys(index.crates[Scope_flatten(scope)[n]]) :
                      LET krate == index.crates[Scope_flatten(scope)[n]]
                          pl == Index_path_and_link(krate, Scope_flatten(scope)[n],
                                                    krate.index[krate.index[key[1]].inner.items[key[2]]],
                                                    Some(krate.index[key[1]].inner))
                      IN pl.kind = "Ok" => result.val.hits[k].path # pl.path

\* A search has returned the method of an inherent impl, and the crate holds
\* a method of a trait impl whose score is below the threshold too.
C12_Witness ==
    /\ Returned
    /\ \E k \in 1..Len(result.val.hits) : result.val.hits[k].path = <<s_a, s_Vec, s_foo>>
    /\ \E n \in 1..Len(Scope_flatten(scope)) :
          \E key \in TraitMethodKeys(index.crates[Scope_flatten(scope)[n]]) :
             LET krate == index.crates[Scope_flatten(scope)[n]] IN
             RatLt(MeanCost(Compare_Query(query.val,
                                          krate.index[krate.index[key[1]].inner.items[key[2]]],
                                          krate, FreshCtx(Some(krate.index[key[1]].inner))).sims),
                   threshold)

\* The positions of the flattened scope whose crate the index holds and whose
\* visit meets an inconsistency.
FailingAt ==
    { n \in 1..Len(Scope_flatten(scope)) :
        /\ Scope_flatten(scope)[n] \in DOMAIN index.crates
        /\ ~VisitSucceeds(Scope_flatten(scope)[n]) }

\* The first position of the flattened scope where the search cannot go on.
FirstTroubleAt == CHOOSE n \in MissingAt \cup FailingAt : \A m \in MissingAt \cup FailingAt : n <= m

\* The ids of a crate that make a visit fail: listed by an inherent impl and
\* absent from the index, or needed for the path of a candidate and absent
\* from paths.
InconsistentIds(name) ==
    LET krate == index.crates[name] IN
    { id \in UNION { {krate.index[i].inner.items[k] : k \in 1..Len(krate.index[i].inner.items)} :
                     i \in { j \in DOMAIN krate.index :
                               /\ krate.index[j].inner.kind = "Impl"
                               /\ ~IsSome(krate.index[j].inner.trait_) } } :
        id \notin DOMAIN krate.index }
    \cup { Index_path_and_link(krate, name, KeyCandidate(krate, key).item,
                               KeyCandidate(krate, key).impl_).id :
             key \in { c \in CandidateKeys(krate) :
                         Index_path_and_link(krate, name, KeyCandidate(krate, c).item,
                                             KeyCandidate(krate, c).impl_).kind = "ItemNotFound" } }

\* C13 as the specification has it: an inconsistent crate in scope makes the
\* search return ItemNotFound with one of its ids.
C13_ItemNotFoundForInconsistentCrate ==
    (pc = "done" /\ FailingAt # {}) =>
        \E n \in FailingAt :
           \E id \in InconsistentIds(Scope_flatten(scope)[n]) :
              result.val = Err(SearchError_ItemNotFound(id, Scope_flatten(scope)[n]))

\* C13: a search whose scope holds an inconsistent crate returns no hits.  The
\* first failure in the order of the scope is the outcome: CrateNotFound if a
\* crate the index does not hold is listed before every inconsistent crate,
\* else ItemNotFound(id, crate) for the first inconsistent crate and one of
\* its inconsistent ids.
C13_FirstFailureIsFatal ==
    (pc = "done" /\ FailingAt # {}) =>
        /\ result.val.kind = "Err"
        /\ IF FirstTroubleAt \in MissingAt
           THEN result.val = Err(SearchError_CrateNotFound(Scope_flatten(scope)[FirstTroubleAt]))
           ELSE /\ result.val.error.kind = "ItemNotFound"
                /\ result.val.error.krate = Scope_flatten(scope)[FirstTroubleAt]
                /\ result.val.error.id \in InconsistentIds(Scope_flatten(scope)[FirstTroubleAt])

\* A search over a set has found hits in the first crate and has returned
\* ItemNotFound for the second.
C13_Witness ==
    /\ pc = "done"
    /\ hits # <<>>
    /\ result.val.kind = "Err"
    /\ result.val.error.kind = "ItemNotFound"
    /\ Len(Scope_flatten(scope)) = 2
    /\ result.val.error.krate = Scope_flatten(scope)[2]

\* ---------------------------------------------------------------------------
\* C14: the comparator on the candidates of the search driver.

RECURSIVE TypeMentionsSelf(_)
TypeMentionsSelf(t) ==
    IF t.tag = "Generic" THEN t.name = s_Self
    ELSE IF t.tag \in {"RawPointer", "BorrowedRef", "Array"} THEN TypeMentionsSelf(t.type_)
    ELSE IF t.tag = "Slice" THEN TypeMentionsSelf(t.elem)
    ELSE IF t.tag = "Tuple" THEN \E k \in DOMAIN t.elems : TypeMentionsSelf(t.elems[k])
    ELSE FALSE

MentionsSelf(item) ==
    \/ \E k \in DOMAIN item.inner.decl.inputs : TypeMentionsSelf(item.inner.decl.inputs[k].ty)
    \/ IsSome(item.inner.decl.output) /\ TypeMentionsSelf(item.inner.decl.output.val)

\* No arm of compare_type before the last one takes the pair (q, i).
Uncovered(q, i, krate) ==
    /\ i.tag # "Generic"
    /\ ~IsTypedefPath(i, krate)
    /\ ~(q.tag = "Tuple" /\ i.tag = "Tuple")
    /\ ~(q.tag = "Slice" /\ i.tag = "Slice")
    /\ ~IsPointer(q) /\ ~IsPointer(i)
    /\ ~(q.tag = "UnresolvedPath" /\ i.tag = "ResolvedPath")
    /\ ~(q.tag = "Primitive" /\ i.tag = "Primitive")

\* The request is `fn (t1, .., tn)`, n >= 1, without names and without a
\* return type, the candidate has n inputs, and no rule covers any of the n
\* pairs of types.
OnlyUncoveredPairs ==
    /\ IsSome(query) /\ ~IsSome(query.val.name) /\ IsSome(query.val.kind)
    /\ LET decl == query.val.kind.val.f.decl
           inputs == cand.item.inner.decl.inputs
       IN /\ IsSome(decl.inputs) /\ ~IsSome(decl.output)
          /\ Len(decl.inputs.val.list) = Len(inputs)
          /\ Len(inputs) >= 1
          /\ \A k \in DOMAIN inputs :
                /\ IsSome(decl.inputs.val.list[k].ty)
                /\ ~IsSome(decl.inputs.val.list[k].name)
                /\ Uncovered(decl.inputs.val.list[k].ty.val, inputs[k].ty,
                             index.crates[krate_name])

\* C14: the comparator never aborts on a candidate the search driver hands it:
\* every comparison returns a vector; a candidate that mentions Self comes
\* with a generics context that holds a Self equality predicate; and a pair
\* of types that no rule covers yields exactly one Different atom.
C14_ComparatorTotalOnDriverCandidates ==
    pc \in {"compared", "replaced"} =>
        /\ IsSome(out)
        /\ ~out.val.ctx.panicked
        /\ MentionsSelf(cand.item) =>
              IsSome(SelfPredicate(FreshCtx(cand.impl_).generics.where_predicates))
        /\ OnlyUncoveredPairs =>
              out.val.sims = Repeat(Different, Len(cand.item.inner.decl.inputs))

\* `fn (!)` against `fn foo(a: !)`: no rule covers (Never, Never), the vector
\* is [Different].
C14_Witness ==
    /\ pc = "compared"
    /\ OnlyUncoveredPairs
    /\ query.val.kind.val.f.decl.inputs.val.list[1].ty.val = Type_Never
    /\ cand.item.inner.decl.inputs[1].ty = types_Never
    /\ out.val.sims = <<Different>>

\* ---------------------------------------------------------------------------
\* C15: the score of a vector is the mean of the costs of its atoms.

\* The cost of an atom: 0, 1/4, 1 for the discrete atoms, x for Continuous(x).
AtomCost(sim) ==
    CASE sim = Equivalent -> Rat(0, 1)
      [] sim = Subequal -> Rat(1, 4)
      [] sim = Different -> Rat(1, 1)
      [] OTHER -> sim.x

\* The sum of the costs of the first k atoms.
RECURSIVE CostOfFirst(_, _)
CostOfFirst(sims, k) ==
    IF k = 0 THEN Rat(0, 1) ELSE RatAdd(CostOfFirst(sims, k - 1), AtomCost(sims[k]))

ContinuousWithinUnit(sims) ==
    \A k \in DOMAIN sims :
        sims[k].kind = "Continuous" => RatLe(Rat(0, 1), sims[k].x) /\ RatLe(sims[k].x, Rat(1, 1))

\* C15: Similarities::score is the arithmetic mean of the costs 0
\* (Equivalent), 0.25 (Subequal), 1 (Different) and x (Continuous(x)); for a
\* non-empty vector whose Continuous atoms lie in [0,1] it lies in [0,1] and
\* is 0 exactly when every atom costs 0.
C15_ScoreIsMeanWithinUnitInterval ==
    (IsSome(out) /\ out.val.sims # <<>> /\ ContinuousWithinUnit(out.val.sims)) =>
        LET sims == out.val.sims
            score == Similarities_score(sims)
            total == CostOfFirst(sims, Len(sims))
        IN /\ ~IsNaN(score)
           /\ score.n * total.d * Len(sims) = total.n * score.d
           /\ RatLe(Rat(0, 1), score) /\ RatLe(score, Rat(1, 1))
           /\ (score = Rat(0, 1)) <=> (\A k \in DOMAIN sims : AtomCost(sims[k]) = Rat(0, 1))

\* A vector with a Subequal atom, a Different atom and a Continuous atom
\* strictly between 0 and 1: its score is strictly between 0 and 1.
C15_Witness ==
    /\ IsSome(out)
    /\ \E i, j, k \in DOMAIN out.val.sims :
          /\ out.val.sims[i] = Subequal
          /\ out.val.sims[j] = Different
          /\ out.val.sims[k].kind = "Continuous"
          /\ RatLt(Rat(0, 1), out.val.sims[k].x) /\ RatLt(out.val.sims[k].x, Rat(1, 1))
    /\ RatLt(Rat(0, 1), Similarities_score(out.val.sims))
    /\ RatLt(Similarities_score(out.val.sims), Rat(1, 1))

\* ---------------------------------------------------------------------------
\* C16: a request that is only a name.

NameOnly(q) == IsSome(q.name) /\ ~IsSome(q.kind)

\* C16: the text `fn foo` parses to the name foo without a kind; a name-only
\* query against a named item yields the single atom
\* Continuous(levenshtein(a, b) / max(|a|, |b|)), so a function or method
\* with the name of the query gets [Continuous(0)] and the score 0 whatever
\* its signature.
C16_NameOnlyQueryComparesNamesOnly ==
    /\ (text = <<"f", "n", " ", "f", "o", "o">> /\ pc # "request") =>
            query = Some(Query(Some(s_foo), None))
    /\ (pc = "compared" /\ NameOnly(query.val) /\ IsSome(cand.item.name)) =>
            LET a == query.val.name.val
                b == cand.item.name.val
            IN /\ out.val.sims =
                    <<Continuous(levenshtein(a, b), Max2(Len(a), Len(b)))>>
               /\ a = b => /\ out.val.sims = <<Continuous(0, 1)>>
                           /\ Similarities_score(out.val.sims) = Rat(0, 1)

\* `fn foo` against the method foo(Self, T) of impl<T> Vec<T>: [Continuous(0)].
C16_Witness ==
    /\ pc = "compared"
    /\ text = <<"f", "n", " ", "f", "o", "o">>
    /\ NameOnly(query.val)
    /\ cand.item.inner.kind = "Method"
    /\ Len(cand.item.inner.decl.inputs) = 2
    /\ out.val.sims = <<Continuous(0, 1)>>

\* ---------------------------------------------------------------------------
\* C17: `()` against `(..)`.

\* The query with its argument list replaced by `..`.
WithAnyInputs(q) ==
    Query(q.name, Some(QueryKind_FunctionQuery(Function(FnDecl(None, q.kind.val.f.decl.output)))))

\* The candidate without its inputs.
WithoutInputs(item) ==
    [item EXCEPT !.inner.decl.inputs = <<>>]

EmptyList(q) ==
    /\ IsSome(q.kind) /\ IsSome(q.kind.val.f.decl.inputs)
    /\ q.kind.val.f.decl.inputs.val.list = <<>>

AnyInputs(q) == IsSome(q.kind) /\ ~IsSome(q.kind.val.f.decl.inputs)

\* C17: `fn f()` parses to an explicit empty list of inputs and `fn f(..)` to
\* absent inputs; against a candidate with n >= 1 inputs the former adds n
\* Different atoms for the inputs (between the atom of the name and those of
\* the return type), the latter adds no atom for the inputs: its vector is
\* that of the candidate stripped of its inputs.
C17_EmptyListIsNotAnyInputs ==
    /\ (text = <<"f", "n", " ", "f", "o", "(", ")">> /\ pc # "request") =>
            IsSome(query) /\ EmptyList(query.val)
    /\ (text = <<"f", "n", " ", "f", "o", "(", ".", ".", ")">> /\ pc # "request") =>
            IsSome(query) /\ AnyInputs(query.val)
    /\ (pc = "compared" /\ Len(cand.item.inner.decl.inputs) >= 1) =>
            LET n == Len(cand.item.inner.decl.inputs)
                k == IF IsSome(query.val.name) THEN 1 ELSE 0
                krate == index.crates[krate_name]
                Inserted(any) ==
                    out.val.sims = SubSeq(any.sims, 1, k) \o Repeat(Different, n)
                                     \o SubSeq(any.sims, k + 1, Len(any.sims))
                Same(stripped) == out.val.sims = stripped.sims
            IN /\ EmptyList(query.val) =>
                    Inserted(Index_compare(WithAnyInputs(query.val), cand.item, krate,
                                           cand.impl_))
               /\ AnyInputs(query.val) =>
                    Same(Index_compare(query.val, WithoutInputs(cand.item), krate,
                                       cand.impl_))

\* `fn fo()` against foo with two inputs: the atom of the name, two Different
\* atoms, the atom of the return type.
C17_Witness ==
    /\ pc = "compared"
    /\ text = <<"f", "n", " ", "f", "o", "(", ")">>
    /\ EmptyList(query.val)
    /\ Len(cand.item.inner.decl.inputs) = 2
    /\ Len(out.val.sims) = 4
    /\ out.val.sims[2] = Different /\ out.val.sims[3] = Different

\* ---------------------------------------------------------------------------
\* C18: texts that are no sentence of the grammar.

\* What parse_query leaves unread of an accepted text, trailing whitespace
\* aside.
UnreadRest(t) == multispace0(parse_query(t).rest)

\* C18: parse_query fails for every text that is not a sentence of the query
\* grammar: a request is only accepted when the grammar derives all of its
\* text, so nothing after `fn ` is left unread.
C18_NonSentencesAreRejected ==
    pc \notin {"request", "rejected"} => UnreadRest(text) = <<>>

\* ---------------------------------------------------------------------------
\* C19: generic parameter or path.

\* The text is one identifier that starts with an ASCII uppercase letter.
UppercaseIdentifier(t) ==
    /\ t # <<>> /\ Head(t) \in AsciiUppercase
    /\ \A k \in DOMAIN t : t[k] \in AsciiUppercase \cup AsciiLowercase \cup AsciiDigit \cup {"_"}

\* The letter after the leading uppercase letters is a lowercase one.
LowercaseFollows(t) ==
    LET n == CountWhile(t, AsciiUppercase)
    IN n < Len(t) /\ t[n + 1] \in AsciiLowercase

\* C19: parse_type reads an identifier that starts with an ASCII uppercase
\* letter as Generic(identifier), the whole identifier consumed, unless a
\* lowercase letter follows its leading uppercase letters: then it reads the
\* whole identifier as an UnresolvedPath.
C19_GenericUnlessLowercaseFollows ==
    (pc # "type_request" /\ UppercaseIdentifier(text)) =>
        LET Read(r) ==
                /\ r.ok /\ r.rest = <<>>
                /\ r.val = IF LowercaseFollows(text) THEN Type_UnresolvedPath(text, None)
                           ELSE Type_Generic(text)
        IN Read(parse_type(text))

\* ---------------------------------------------------------------------------
\* C20: the reply of the /search handler.  Index::search has returned for the
\* request `fn foo` on a crate of up to MaxHits functions foo and fo, each in a
\* module of its own.

MaxHits == 32

DecimalDigits == <<"0", "1", "2", "3", "4", "5", "6", "7", "8", "9">>

\* The module of the k-th function: m1, m2, ..
ModuleName(k) ==
    <<"m">> \o (IF k < 10 THEN <<>> ELSE <<DecimalDigits[(k \div 10) + 1]>>)
           \o <<DecimalDigits[(k % 10) + 1]>>

FunctionId(k) == ToString(k)

\* A crate of n functions without inputs, the first j named foo, the others fo.
BigCrate(n, j) ==
    types_Crate(
        [id \in { FunctionId(k) : k \in 1..n } |->
            LET k == CHOOSE k \in 1..n : FunctionId(k) = id
            IN types_Item(id, Some(IF k <= j THEN s_foo ELSE s_fo), None,
                          ItemEnum_Function(types_FnDecl(<<>>, None), Generics_default))],
        [id \in { FunctionId(k) : k \in 1..n } |->
            LET k == CHOOSE k \in 1..n : FunctionId(k) = id
            IN ItemSummary(<<<<"b", "i", "g">>, ModuleName(k), IF k <= j THEN s_foo ELSE s_fo>>,
                           "Function")])

BigIndex(n, j) == [crates |-> [name \in {"big"} |-> BigCrate(n, j)]]

\* The hit of the k-th function, as Index::search builds it (search.rs:85-96).
BigHit(q, krate, k) ==
    LET Built(pl, r) == Hit(krate.index[FunctionId(k)].name.val, pl.path, pl.link, None, r.sims)
    IN Built(Index_path_and_link(krate, "big", krate.index[FunctionId(k)], None),
             Index_compare(q, krate.index[FunctionId(k)], krate, None))

InitRespond ==
    /\ pc = "done"
    /\ text = <<"f", "n", " ", "f", "o", "o">>
    /\ query = Some(Query(Some(s_foo), None))
    /\ scope = Scope_Crate("big")
    /\ threshold = Rat(2, 5)
    /\ \E n \in 0..MaxHits : \E j \in 0..n :
         /\ index = BigIndex(n, j)
         /\ hits = [k \in 1..n |-> BigHit(query.val, BigCrate(n, j), k)]
    /\ result = Some(Ok(hits))
    /\ cand = None
    /\ out = None
    /\ prev = None
    /\ krates = <<>>
    /\ krate_name = "big"
    /\ pending = {}
    /\ assoc = <<>>
    /\ impl_id = ""
    /\ generics = Generics_default
    /\ substs = <<>>
    /\ response = None
    /\ unshaken = None

NextRespond == Respond

SpecRespond == InitRespond /\ [][NextRespond]_vars

\* C20: the /search handler replies with at most 30 hits: the first 30, in
\* order, of the sorted and threshold-filtered hits of Index::search, so no
\* hit left out scores below a hit of the reply.
C20_ReplyIsFirstThirtyHits ==
    (pc = "responded" /\ result.val.kind = "Ok") =>
        /\ IsSome(response) /\ response.val.kind = "Ok"
        /\ LET found == result.val.hits
               reply == response.val.hits
           IN /\ Len(reply) <= 30
              /\ Len(reply) = IF Len(found) <= 30 THEN Len(found) ELSE 30
              /\ \A k \in 1..Len(reply) : reply[k] = found[k]
              /\ \A k \in 1..Len(reply) : RatLt(Hit_score(reply[k]), threshold)
              /\ \A k \in 1..Len(reply) : \A l \in k..Len(found) :
                    RatLe(Hit_score(reply[k]), Hit_score(found[l]))

\* Index::search found 32 hits, the reply holds 30.
C20_Witness ==
    /\ pc = "responded"
    /\ result.val.kind = "Ok"
    /\ Len(result.val.hits) = 32
    /\ Len(response.val.hits) = 30

\* ---------------------------------------------------------------------------
\* C22: a candidate type that is an alias.

\* The request is `fn (t)` without names and return type, the candidate is a
\* free function with one input.
OneTypeAgainstOneInput ==
    /\ pc = "compared"
    /\ ~IsSome(query.val.name) /\ IsSome(query.val.kind)
    /\ ~IsSome(cand.impl_)
    /\ LET decl == query.val.kind.val.f.decl
       IN /\ IsSome(decl.inputs) /\ ~IsSome(decl.output)
          /\ Len(decl.inputs.val.list) = 1
          /\ IsSome(decl.inputs.val.list[1].ty) /\ ~IsSome(decl.inputs.val.list[1].name)
    /\ Len(cand.item.inner.decl.inputs) = 1

QueryType == query.val.kind.val.f.decl.inputs.val.list[1].ty.val

CandidateType == cand.item.inner.decl.inputs[1].ty

TotalCost(sims) == CostOfFirst(sims, Len(sims))

\* C22: for a candidate path whose item is a Typedef, compare_type returns
\* the vector of the query against the alias path itself or the vector of
\* the query against the alias's underlying type, whichever has the lower
\* total cost, and the vector of the alias itself when the costs are equal.
C22_TypedefKeepsCheaperVector ==
    (OneTypeAgainstOneInput /\ IsTypedefPath(CandidateType, index.crates[krate_name])) =>
        LET krate == index.crates[krate_name]
            Kept(r_alias, r_under) ==
                out.val.sims = IF RatLt(TotalCost(r_under.sims), TotalCost(r_alias.sims))
                               THEN r_under.sims ELSE r_alias.sims
            Underlying(r_alias) ==
                Kept(r_alias,
                     Compare_Type(QueryType, krate.index[CandidateType.id].inner.type_, krate,
                                  r_alias.ctx))
        IN Underlying(compare_type(QueryType, CandidateType, krate, FreshCtx(None), FALSE))

\* `fn (Vec<i32>)` against an input of the alias type Al = Vec<T>: the name Vec
\* against Al costs 1, the underlying Vec<T> costs 0.25 and is kept.
C22_Witness ==
    /\ OneTypeAgainstOneInput
    /\ QueryType = q_Path(s_Vec, <<Some(q_i32)>>)
    /\ CandidateType = c_Al
    /\ out.val.sims = <<Continuous(0, 1), Subequal>>

\* ---------------------------------------------------------------------------
\* C23: an alias of an alias.

\* The candidate's input is an alias whose underlying type is an alias again.
AliasOfAlias ==
    /\ OneTypeAgainstOneInput
    /\ IsTypedefPath(CandidateType, index.crates[krate_name])
    /\ IsTypedefPath(index.crates[krate_name].index[CandidateType.id].inner.type_,
                     index.crates[krate_name])

\* The vector with the lower total cost, the first one on equal costs.
CheaperOf(r_first, r_second) ==
    IF RatLt(TotalCost(r_second.sims), TotalCost(r_first.sims)) THEN r_second ELSE r_first

\* C23 as claimed: unfolding is applied at most once per path: when the
\* underlying type of an unfolded alias is a path to another Typedef, that
\* second alias is not unfolded.
C23_UnfoldedAtMostOnce ==
    AliasOfAlias =>
        LET krate == index.crates[krate_name]
            second == krate.index[CandidateType.id].inner.type_
            Kept(r_alias, r_second) == out.val.sims = CheaperOf(r_alias, r_second).sims
            Second(r_alias) ==
                Kept(r_alias, compare_type(QueryType, second, krate, r_alias.ctx, FALSE))
        IN Second(compare_type(QueryType, CandidateType, krate, FreshCtx(None), FALSE))

\* C23 amended: only the comparison with the alias path itself is done without
\* unfolding; the underlying type is compared with unfolding allowed, so a
\* chain of aliases is unfolded link by link, each link once: for Al2 = Al,
\* Al = Vec<T> the result is the cheapest of the vectors for Al2 itself, for
\* Al itself and for Vec<T>, earlier ones winning ties.
C23_AliasChainUnfoldedLinkByLink ==
    AliasOfAlias =>
        LET krate == index.crates[krate_name]
            second == krate.index[CandidateType.id].inner.type_
            third == krate.index[second.id].inner.type_
            Kept(r_alias, r_second, r_third) ==
                out.val.sims = CheaperOf(r_alias, CheaperOf(r_second, r_third)).sims
            Third(r_alias, r_second) ==
                Kept(r_alias, r_second, Compare_Type(QueryType, third, krate, r_second.ctx))
            Second(r_alias) ==
                Third(r_alias, compare_type(QueryType, second, krate, r_alias.ctx, FALSE))
        IN Second(compare_type(QueryType, CandidateType, krate, FreshCtx(None), FALSE))

\* `fn (Vec<i32>)` against an input of type Al2 = Al = Vec<T>: the vector of
\* Vec<T>, two aliases down, is returned.
C23_Witness ==
    /\ AliasOfAlias
    /\ QueryType = q_Path(s_Vec, <<Some(q_i32)>>)
    /\ CandidateType = c_Al2
    /\ out.val.sims = <<Continuous(0, 1), Subequal>>

\* ---------------------------------------------------------------------------
\* C24: the inputs of a declaration.

\* The query and the candidate cut down to their first p inputs.
FirstInputsOfQuery(q, p) ==
    Query(None, Some(QueryKind_FunctionQuery(Function(
        FnDecl(Some([list |-> SubSeq(q.kind.val.f.decl.inputs.val.list, 1, p)]), None)))))

FirstInputsOfItem(item, p) ==
    [item EXCEPT !.inner.decl.inputs = SubSeq(@, 1, p)]

\* C24: when the query specifies inputs, atoms are produced only for the
\* positions present on both sides, followed by |m - n| Different atoms when
\* the lengths m and n differ, or by one Equivalent atom when both lists are
\* empty; `fn ()` against `fn foo()` yields [Equivalent, Equivalent].
C24_InputAtomsByPosition ==
    /\ (/\ pc = "compared" /\ ~IsSome(query.val.name) /\ IsSome(query.val.kind)
        /\ IsSome(query.val.kind.val.f.decl.inputs)
        /\ ~IsSome(query.val.kind.val.f.decl.output)
        /\ ~IsSome(cand.impl_)) =>
            LET m == Len(query.val.kind.val.f.decl.inputs.val.list)
                n == Len(cand.item.inner.decl.inputs)
                p == Min2(m, n)
                Laid(both) ==
                    out.val.sims =
                        (IF p = 0 THEN <<>> ELSE both.sims)
                          \o (IF m # n THEN Repeat(Different, Max2(m, n) - Min2(m, n))
                              ELSE IF m = 0 THEN <<Equivalent>> ELSE <<>>)
            IN Laid(Index_compare(FirstInputsOfQuery(query.val, p),
                                  FirstInputsOfItem(cand.item, p),
                                  index.crates[krate_name], None))
    /\ (/\ pc = "compared"
        /\ query.val = Query(None, Some(QueryKind_FunctionQuery(Function(
                            FnDecl(Some([list |-> <<>>]), Some(FnRetTy_DefaultReturn))))))
        /\ cand = Candidate(FunctionItem(s_foo, <<>>, None), None)) =>
            out.val.sims = <<Equivalent, Equivalent>>

\* `fn (i32)` against foo(a: i32, a: T): the atom of the first position, then
\* one Different for the input the query lacks.
C24_Witness ==
    /\ pc = "compared"
    /\ query.val = Query(None, Some(QueryKind_FunctionQuery(Function(
                        FnDecl(Some([list |-> <<Argument(Some(q_i32), None)>>]), None)))))
    /\ cand = Candidate(FunctionItem(s_foo, <<c_i32, c_T>>, None), None)
    /\ out.val.sims = <<Equivalent, Different>>

\* ---------------------------------------------------------------------------
\* C25: a candidate type that is a generic parameter.

\* The request is `fn (t1, .., tn)` without names and return type, the
\* candidate a free function with n inputs, all of them generic parameters.
TypesAgainstGenerics ==
    /\ pc = "compared"
    /\ ~IsSome(query.val.name) /\ IsSome(query.val.kind)
    /\ ~IsSome(cand.impl_)
    /\ LET decl == query.val.kind.val.f.decl
           inputs == cand.item.inner.decl.inputs
       IN /\ IsSome(decl.inputs) /\ ~IsSome(decl.output)
          /\ Len(decl.inputs.val.list) = Len(inputs)
          /\ Len(inputs) >= 1
          /\ \A k \in DOMAIN inputs :
                /\ IsSome(decl.inputs.val.list[k].ty)
                /\ ~IsSome(decl.inputs.val.list[k].name)
                /\ inputs[k].ty.tag = "Generic" /\ inputs[k].ty.name # s_Self

\* The atoms and the table after the first k positions, by the rule: unbound
\* gives Subequal and binds, bound to an equal type gives Equivalent, bound to
\* another type gives Different, the table as it was.
RECURSIVE BoundByRule(_, _, _)
BoundByRule(args, inputs, k) ==
    IF k = 0 THEN [sims |-> <<>>, substs |-> <<>>]
    ELSE LET Step(before, q, X) ==
                 IF X \notin DOMAIN before.substs
                 THEN [sims |-> Append(before.sims, Subequal),
                       substs |-> [x \in DOMAIN before.substs \cup {X} |->
                                      IF x = X THEN q ELSE before.substs[x]]]
                 ELSE [sims |-> Append(before.sims,
                                       IF before.substs[X] = q THEN Equivalent ELSE Different),
                       substs |-> before.substs]
         IN Step(BoundByRule(args, inputs, k - 1), args[k].ty.val, inputs[k].ty.name)

\* C25: comparing a query type q with a candidate Generic(X), X other than
\* Self, yields exactly one atom: Subequal with the new binding substs[X] = q
\* when X is unbound, Equivalent with substs unchanged when X is bound to a
\* type equal to q, Different with substs unchanged when X is bound to another
\* type.
C25_GenericBindingRule ==
    TypesAgainstGenerics =>
        LET Ruled(r) == out.val.sims = r.sims /\ out.val.ctx.substs = r.substs
        IN Ruled(BoundByRule(query.val.kind.val.f.decl.inputs.val.list,
                             cand.item.inner.decl.inputs,
                             Len(cand.item.inner.decl.inputs)))

\* `fn (i32, u8)` against foo(a: T, a: T): T is bound to i32 by the first
\* input and differs from u8 at the second.
C25_Witness ==
    /\ TypesAgainstGenerics
    /\ out.val.sims = <<Subequal, Different>>
    /\ out.val.ctx.substs = [x \in {s_T} |-> q_i32]

\* ---------------------------------------------------------------------------
\* C26: a path against a path.

\* The atoms of the generic arguments at the positions k.. both sides have:
\* nothing for a wildcard of the query, Different for a candidate argument
\* that is no type, the atoms of the two types otherwise.
RECURSIVE ArgumentAtoms(_, _, _, _)
ArgumentAtoms(q, i, k, krate) ==
    IF k > Len(q) \/ k > Len(i) THEN <<>>
    ELSE LET At(r) == r.sims \o ArgumentAtoms(q, i, k + 1, krate)
         IN At(IF ~IsSome(q[k]) THEN Res(<<>>, FreshCtx(None))
               ELSE IF i[k].kind # "Type" THEN Res(<<Different>>, FreshCtx(None))
               ELSE Compare_Type(q[k].val, i[k].ty, krate, FreshCtx(None)))

PathAgainstPath ==
    /\ OneTypeAgainstOneInput
    /\ QueryType.tag = "UnresolvedPath"
    /\ CandidateType.tag = "ResolvedPath"
    /\ ~IsTypedefPath(CandidateType, index.crates[krate_name])

\* C26: a query path against a candidate path yields the Continuous atom of
\* the names, then the atoms of the generic arguments position by position,
\* a wildcard of the query contributing nothing; a query with generic
\* arguments against a candidate without any adds one Different per argument
\* of the query; without generic arguments in the query the candidate's
\* contribute nothing.
C26_PathComparison ==
    PathAgainstPath =>
        LET q == QueryType
            i == CandidateType
        IN out.val.sims =
             <<Continuous(levenshtein(q.name, i.name), Max2(Len(q.name), Len(i.name)))>>
               \o (IF ~IsSome(q.args) THEN <<>>
                   ELSE IF ~IsSome(i.args) THEN Repeat(Different, Len(q.args.val.args))
                   ELSE IF i.args.val.kind # "AngleBracketed" THEN <<>>
                   ELSE ArgumentAtoms(q.args.val.args, i.args.val.args, 1,
                                      index.crates[krate_name]))

\* `fn (Vec<i32, u8>)` against an input of type Vec<'a, T>: the names agree,
\* i32 meets a lifetime, u8 binds T.
C26_Witness ==
    /\ PathAgainstPath
    /\ QueryType = q_Path(s_Vec, <<Some(q_i32), Some(q_u8)>>)
    /\ CandidateType = c_Vec(<<types_GenericArg_Lifetime, types_GenericArg_Type(c_T)>>)
    /\ out.val.sims = <<Continuous(0, 1), Different, Subequal>>

(***************************************************************************)
(* C27: every binding is paid for with a Subequal in the returned vector.  *)
(***************************************************************************)
Bound(ctx) == Cardinality(DOMAIN ctx.substs)

\* C27 as stated: the vector returned by one top-level comparison holds at
\* least as many Subequal atoms as the substitution table holds bindings,
\* alias candidates included.
C27_EveryBindingPaidFor ==
    Compared => CountOf(Subequal, out.val.sims) >= Bound(out.val.ctx)

\* C27 amended: the vector returned by one top-level comparison holds at
\* least as many Subequal atoms as the substitution table holds bindings
\* that were not made inside a discarded alternative of a type alias.
C27_BindingsOutsideDiscardedAlternativesPaidFor ==
    Compared =>
        CountOf(Subequal, out.val.sims) >= Bound(out.val.ctx) - out.val.ctx.unpaid

\* The only input of the candidate is a type alias; the kept alternative
\* bound a generic and the vector holds the Subequal that pays for it.
C27_Witness ==
    /\ pc = "compared"
    /\ OneTypeAgainstOneInput
    /\ IsTypedefPath(CandidateType, index.crates[krate_name])
    /\ Bound(out.val.ctx) = 1
    /\ out.val.ctx.unpaid = 0
    /\ CountOf(Subequal, out.val.sims) = 1

(***************************************************************************)
(* C28: the substitution table only grows.                                 *)
(***************************************************************************)
\* C28: after one top-level comparison every key that the substitution table
\* ever received is still in it, with the value of its first insertion, and
\* the table holds nothing else; the two comparisons of the typedef rule
\* included.
C28_SubstitutionTableOnlyGrows ==
    Compared => out.val.ctx.substs = out.val.ctx.first

\* The only input of the candidate is a type alias; the alternative that
\* was thrown away had bound a generic, and the binding is still there.
C28_Witness ==
    /\ pc = "compared"
    /\ OneTypeAgainstOneInput
    /\ IsTypedefPath(CandidateType, index.crates[krate_name])
    /\ out.val.ctx.unpaid = 1
    /\ DOMAIN out.val.ctx.substs = {<<"T">>}

(***************************************************************************)
(* C29: a text that ends after the argument list has the default output.   *)
(***************************************************************************)
\* i without the whitespace at its end.
RECURSIVE TrimEnd(_)
TrimEnd(i) == IF i # <<>> /\ i[Len(i)] \in Whitespace THEN TrimEnd(SubSeq(i, 1, Len(i) - 1)) ELSE i

\* q with the output of its declaration replaced.
QueryWithOutput(q, output) ==
    Query(q.name, Some(QueryKind_FunctionQuery(Function(
                         FnDecl(q.kind.val.f.decl.inputs, output)))))

\* The text of the request is `fn`, the name and the argument list that were
\* read from it, and nothing but whitespace after the `)`.
EndsAfterList ==
    /\ pc = "compared"
    /\ IsSome(query.val.kind)
    /\ TrimEnd(text) = PrintQuery(QueryWithOutput(query.val, Some(FnRetTy_DefaultReturn)))

OutputAtom == IF IsSome(cand.item.inner.decl.output) THEN Different ELSE Equivalent

\* C29: a text that ends right after the `)` of its argument list, or with
\* whitespace after it, is read with the output DefaultReturn; a query with
\* that output gets the atoms of the same query without an output followed
\* by one atom more, Different against a candidate with a return type and
\* Equivalent against one without; a query without an output gets none.
C29_EndOfListIsDefaultReturn ==
    Compared /\ IsSome(query.val.kind) =>
        LET output == query.val.kind.val.f.decl.output
            krate == index.crates[krate_name]
            Absent == Index_compare(QueryWithOutput(query.val, None), cand.item, krate, cand.impl_)
            Default == Index_compare(QueryWithOutput(query.val, Some(FnRetTy_DefaultReturn)),
                                     cand.item, krate, cand.impl_)
        IN /\ EndsAfterList => output = Some(FnRetTy_DefaultReturn)
           /\ output = Some(FnRetTy_DefaultReturn) =>
                 out.val.sims = Append(Absent.sims, OutputAtom)
           /\ ~IsSome(output) =>
                 Append(out.val.sims, OutputAtom) = Default.sims

\* `fn (u8) ` and the like against a candidate that returns a type: the
\* vector ends with the Different of the output.
C29_Witness ==
    /\ EndsAfterList
    /\ text[Len(text)] = " "
    /\ IsSome(query.val.kind.val.f.decl.inputs)
    /\ query.val.kind.val.f.decl.inputs.val.list # <<>>
    /\ IsSome(cand.item.inner.decl.output)
    /\ out.val.sims[Len(out.val.sims)] = Different

(***************************************************************************)
(* roogle-util: shake, and make_index of main.rs, which applies it to every *)
(* crate it reads (specification SpecShake).  A request is searched in the  *)
(* crates as they were read and then again in the crates make_index keeps.  *)
(***************************************************************************)
\* fn shake_index: matches!(item.inner, Function(_) | Method(_) | Trait(_) |
\* Impl(_) | Typedef(_) | AssocConst { .. })
shake_index(index_) ==
    [id \in {id \in DOMAIN index_ :
                index_[id].inner.kind \in {"Function", "Method", "Trait", "Impl", "Typedef",
                                           "AssocConst"}} |-> index_[id]]

\* fn shake_paths: matches!(item.kind, Struct | Union | Enum | Function | Trait | Method)
shake_paths(paths) ==
    [id \in {id \in DOMAIN paths :
                paths[id].kind \in {"Struct", "Union", "Enum", "Function", "Trait", "Method"}}
       |-> paths[id]]

\* pub fn shake: the other fields of the crate are handed on as they are.
shake(krate) ==
    [krate EXCEPT !.index = shake_index(@), !.paths = shake_paths(@),
                  !.external_crates = <<>>]

\* A crate as serde_json reads it: external_crates is the field shake empties.
ReadCrate(krate, external_crates) ==
    [index |-> krate.index, paths |-> krate.paths, external_crates |-> external_crates]

s_s == <<"s">>

s_push == <<"p", "u", "s", "h">>

s_Option == <<"O", "p", "t", "i", "o", "n">>

c_usize == types_Primitive("usize")

c_Option(t) ==
    types_ResolvedPath(s_Option, "option", Some(types_AngleBracketed(<<types_GenericArg_Type(t)>>)))

\* Crate s, the corpus of the end-to-end scenarios: fn foo(),
\* fn add(a: usize, b: usize) -> usize, impl<T> Vec<T> { fn push(&mut self, value: T) },
\* fn map<T, U>(x: Option<T>, f: F) -> Option<U>, with the struct, the enum
\* and the module that rustdoc lists besides.
CrateS ==
    types_Crate(
        [id \in {"foo", "add", "impl", "push", "map", "vec", "option"} |->
            CASE id = "foo" ->
                    types_Item(id, Some(s_foo), None,
                               ItemEnum_Function(types_FnDecl(<<>>, None), Generics_default))
              [] id = "add" ->
                    types_Item(id, Some(<<"a", "d", "d">>), None,
                               ItemEnum_Function(
                                   types_FnDecl(<<types_Arg(<<"a">>, c_usize),
                                                  types_Arg(<<"b">>, c_usize)>>, Some(c_usize)),
                                   Generics_default))
              [] id = "impl" ->
                    types_Item(id, None, None,
                               ItemEnum_Impl(Generics_default, None, c_VecT, <<"push">>))
              [] id = "push" ->
                    types_Item(id, Some(s_push), None,
                               ItemEnum_Method(
                                   types_FnDecl(<<types_Arg(<<"s", "e", "l", "f">>,
                                                            types_BorrowedRef(TRUE, c_Self)),
                                                  types_Arg(<<"v", "a", "l", "u", "e">>, c_T)>>,
                                                None),
                                   Generics_default))
              [] id = "map" ->
                    types_Item(id, Some(<<"m", "a", "p">>), None,
                               ItemEnum_Function(
                                   types_FnDecl(<<types_Arg(<<"x">>, c_Option(c_T)),
                                                  types_Arg(<<"f">>, types_Generic(<<"F">>))>>,
                                                Some(c_Option(c_U))),
                                   Generics_default))
              [] id = "vec" -> types_Item(id, Some(s_Vec), None, ItemEnum_Other("Struct"))
              [] id = "option" -> types_Item(id, Some(s_Option), None, ItemEnum_Other("Enum"))],
        [id \in {"foo", "add", "map", "vec", "option", "mod"} |->
            CASE id = "foo" -> ItemSummary(<<s_s, s_foo>>, "Function")
              [] id = "add" -> ItemSummary(<<s_s, <<"a", "d", "d">>>>, "Function")
              [] id = "map" -> ItemSummary(<<s_s, <<"m", "a", "p">>>>, "Function")
              [] id = "vec" -> ItemSummary(<<s_s, s_Vec>>, "Struct")
              [] id = "option" -> ItemSummary(<<s_s, s_Option>>, "Enum")
              [] id = "mod" -> ItemSummary(<<s_s>>, "Module")])

\* Crate e: impl<T> Vec<T> { type A; fn foo(a: Self) }, an inherent impl that
\* lists an associated type next to its method.
CrateE ==
    types_Crate(
        [id \in {"i5", "t5", "m5"} |->
            CASE id = "i5" ->
                    types_Item(id, None, None,
                               ItemEnum_Impl(Generics_default, None, c_VecT, <<"t5", "m5">>))
              [] id = "t5" -> types_Item(id, Some(<<"A">>), None, ItemEnum_Other("AssocType"))
              [] id = "m5" ->
                    types_Item(id, Some(s_foo), None,
                               ItemEnum_Method(types_FnDecl(NamedInputs(<<c_Self>>), None),
                                               Generics_default))],
        [id \in {"vec"} |-> ItemSummary(<<<<"e">>, s_Vec>>, "Struct")])

\* The crates as they are read from their files.
ReadIndex ==
    [crates |-> [n \in {"s", "a", "b", "c", "e"} |->
                    CASE n = "s" -> ReadCrate(CrateS, <<"core">>)
                      [] n = "a" -> ReadCrate(CrateA, <<>>)
                      [] n = "b" -> ReadCrate(CrateB, <<"core">>)
                      [] n = "c" -> ReadCrate(CrateC, <<>>)
                      [] n = "e" -> ReadCrate(CrateE, <<>>)]]

\* `fn (&mut Vec<T>, T)`
t_push ==
    <<"f", "n", " ", "(", "&", "m", "u", "t", " ", "V", "e", "c", "<", "T", ">", ",", " ", "T", ")">>

\* `fn foo`, `fn (&mut Vec<T>, T)`, `fn (u8)`
ShakeTexts == { <<"f", "n", " ", "f", "o", "o">>, t_push, <<"f", "n", " ", "(", "u", "8", ")">> }

ShakeScopes ==
    { Scope_Crate(n) : n \in {"s", "a", "b", "c", "e", "z"} }
    \cup { Scope_Set(<<n, m>>) : n \in {"s", "b"}, m \in {"a", "e"} }

InitShake ==
    /\ pc = "request"
    /\ text \in ShakeTexts
    /\ scope \in ShakeScopes
    /\ threshold \in { Rat(2, 5), Rat(1, 1) }
    /\ index = ReadIndex
    /\ query = None
    /\ cand = None
    /\ out = None
    /\ prev = None
    /\ krates = <<>>
    /\ krate_name = ""
    /\ pending = {}
    /\ assoc = <<>>
    /\ impl_id = ""
    /\ hits = <<>>
    /\ result = None
    /\ generics = Generics_default
    /\ substs = <<>>
    /\ response = None
    /\ unshaken = None

\* make_index (main.rs:130-158): every crate read is replaced by shake of it.
\* The outcome of the search in the crates as read is kept in unshaken, and
\* the same query is searched again.
make_index ==
    /\ pc = "done"
    /\ ~IsSome(unshaken)
    /\ unshaken' = result
    /\ index' = [crates |-> [n \in DOMAIN index.crates |-> shake(index.crates[n])]]
    /\ pc' = "parsed"
    /\ cand' = None /\ out' = None /\ prev' = None
    /\ krates' = <<>> /\ krate_name' = "" /\ pending' = {} /\ assoc' = <<>> /\ impl_id' = ""
    /\ hits' = <<>> /\ result' = None
    /\ generics' = Generics_default /\ substs' = <<>>
    /\ UNCHANGED << text, query, scope, threshold, response >>

NextShake ==
    \/ ParseRequest
    \/ BeginSearch
    \/ EnterCrate
    \/ VisitFunction
    \/ EnterImpl
    \/ VisitAssocItem
    \/ SkipItem
    \/ LeaveCrate
    \/ Finish
    \/ make_index

SpecShake == InitShake /\ [][NextShake]_vars

(***************************************************************************)
(* C21: `fn (&mut Vec<T>, T)` finds Vec::push.                             *)
(***************************************************************************)
Searched == pc = "done" /\ IsSome(result)

\* C21: the search for `fn (&mut Vec<T>, T)` in the crate of the scenarios
\* returns hits, the first of them is push of Vec, and its score is below 0.1.
C21_PushRanksFirst ==
    (Searched /\ text = t_push /\ scope = Scope_Crate("s")) =>
        /\ result.val.kind = "Ok"
        /\ result.val.hits # <<>>
        /\ result.val.hits[1].name = s_push
        /\ result.val.hits[1].path = <<s_s, s_Vec, s_push>>
        /\ RatLt(Hit_score(result.val.hits[1]), Rat(1, 10))

\* The search with the threshold 1 has returned push ahead of other hits.
C21_Witness ==
    /\ Searched /\ text = t_push /\ scope = Scope_Crate("s")
    /\ threshold = Rat(1, 1)
    /\ Len(result.val.hits) >= 2
    /\ result.val.hits[1].name = s_push
    /\ result.val.hits[1].similarities = <<Continuous(0, 1), Subequal, Equivalent, Equivalent>>

(***************************************************************************)
(* C30: shake leaves the outcome of a search as it was.                    *)
(***************************************************************************)
HitsOf(r) == {r.hits[k] : k \in 1..Len(r.hits)}

\* The same hits with the same scores, hits of equal score in any order, or
\* the same failure.
SameOutcome(before, after) ==
    /\ before.kind = after.kind
    /\ IF before.kind = "Ok"
       THEN Len(before.hits) = Len(after.hits) /\ HitsOf(before) = HitsOf(after)
       ELSE before = after

Idempotent(krate) == shake(shake(krate)) = shake(krate)

\* C30: the search in the crates make_index keeps has the outcome that the
\* search in the crates as read had, and shake of a crate that shake
\* returned is that crate.
C30_ShakePreservesSearch ==
    /\ (Searched /\ IsSome(unshaken)) => SameOutcome(unshaken.val, result.val)
    /\ \A n \in DOMAIN index.crates : Idempotent(index.crates[n])

====
